---------------------------- MODULE Spec2Model ----------------------------
(***************************************************************************)
(* A model of permasquare's publishing pipeline (src/src/service/deploy.ts) *)
(* and crawler (src/src/service/extract.ts).                                *)
(*                                                                          *)
(* Strings are sequences of one-character strings, so that startsWith,      *)
(* endsWith, substring, replace and split work on them as they do in the    *)
(* TypeScript source.                                                       *)
(***************************************************************************)
EXTENDS Integers, Sequences, FiniteSets, TLC

VARIABLES
  \* ---- deployWithTurbo (deploy.ts) ----
  stored,       \* blob-store keys of the host, in the order getMultipleFiles retrieved them
  dpc,          \* position of deployWithTurbo
  pages,        \* Map<string,string> of getSiteContent: sequence of [path, content]
  assets,       \* Map<string,Buffer> of getSiteContent: sequence of [path, content]
  idx,          \* position of the running for-loop in pages/assets
  inflight,     \* the turbo.upload call being awaited, or NoUpload
  fileMapping,  \* Record<string,string>: sequence of [path, id] in insertion order
  nextId,       \* number of identifiers the storage network has handed out
  uploads,      \* history of finished turbo.upload calls
  manifest,     \* result of createArweaveManifest, or NoManifest
  DRY_RUN,      \* const DRY_RUN of the build (deploy.ts:19)
  \* ---- crawlAndSave (extract.ts) ----
  cpc,          \* position of crawlAndSave
  queue,        \* const queue = [startUrl]
  visited,      \* const visited = new Set<string>()
  savedPages,   \* const savedPages: string[]
  assetQueue,   \* const assetQueue = new Set<string>()  (insertion order)
  savedAssets,  \* const savedAssets: string[]
  browserInstance, \* let browserInstance: Browser | null  ("none" | "open")
  browserEvents,\* history of launch(...) and browserInstance.close() calls
  fetched,      \* history of the iterations of the page loop
  assetIdx,     \* position of the asset loop in assetQueue
  maxPages,     \* options.maxPages of this run
  delay,        \* options.delay of this run
  site,         \* the crawled site: how each of its URLs answers
  faults,       \* number of calls of this run that have thrown
  bucket,       \* the blob store: set of [key, body]
  tempDir,      \* the files of the local directory temp/: set of [name, body]
  downloads,    \* history of the downloadAsset calls of the asset loop
  analysis,     \* history of the analyzeSite call, <<>> when there was none
  \* ---- the pure functions of deploy.ts and extract.ts, applied to one input ----
  fpc,          \* "idle" | "input" | "once" | "twice"
  finput,       \* the arguments of the call: [op, ref, fm]
  fout1,        \* the result of the call
  fout2,        \* the result of the call on its own result
  \* ---- overlapping crawlAndSave / analyzeSite calls (extract.ts) ----
  ops,          \* the operations that run in one process: [kind, pc, browser, fetches, threw]
  sharedBrowser,\* let browserInstance of the module while operations overlap: index in browsers, 0 for null
  browsers,     \* the browsers launch(...) has returned, each "open" or "closed"
  \* ---- getMultipleFiles (README.md:185-203) ----
  bulkKeys,     \* the argument keys of getMultipleFiles
  retrievals,   \* the getFile call started for each element of keys: "pending" | "retrieved" | "failed"
  results,      \* const results = new Map<string, Buffer>(): sequence of [key, content]
  bulk,         \* position of getMultipleFiles: "idle" | "called" | "awaiting" | "resolved" | "rejected"
  \* ---- fundBundlerIfNeeded (arweave.ts:127-198) ----
  fundpc,       \* position of fundBundlerIfNeeded
  estimatedCostAR,\* its argument estimatedCostAR
  arweaveBalance,\* arweaveBalance.balanceAR, the balance of the main wallet
  turboBalance, \* turboBalance.ar, the Turbo balance read before funding
  newTurboBalance,\* newTurboBalance.ar, the Turbo balance read after funding
  fundingTxs,   \* the amounts turbo.topUpWithTokens was called with
  fundResult    \* the value fundBundlerIfNeeded returns: [funded, fundingTxId, error]

deployVars == <<stored, dpc, pages, assets, idx, inflight, fileMapping, nextId,
                uploads, manifest, DRY_RUN>>
crawlVars  == <<cpc, queue, visited, savedPages, assetQueue, savedAssets,
                browserInstance, browserEvents, fetched, assetIdx, maxPages, delay,
                site, faults, bucket, tempDir, downloads, analysis>>
functionVars == <<fpc, finput, fout1, fout2>>
concurrentVars == <<ops, sharedBrowser, browsers>>
retrievalVars == <<bulkKeys, retrievals, results, bulk>>
fundingVars == <<fundpc, estimatedCostAR, arweaveBalance, turboBalance, newTurboBalance, fundingTxs, fundResult>>
serviceVars == <<concurrentVars, retrievalVars, fundingVars>>
vars == <<deployVars, crawlVars, functionVars, serviceVars>>

-----------------------------------------------------------------------------
(***************************************************************************)
(* Bounds of the model.                                                     *)
(***************************************************************************)
\* Largest number of files of one host held in the blob store.
MaxFiles == 4
\* Largest options.maxPages of a crawl.
MaxPagesBound == 3
\* Largest number of calls (newPage, goto, saveFile) that throw in one crawl.
MaxFaults == 1

-----------------------------------------------------------------------------
(***************************************************************************)
(* String helpers (JavaScript String methods on character sequences).       *)
(***************************************************************************)
Range(s) == { s[i] : i \in 1..Len(s) }

\* s.startsWith(p)
StartsWith(s, p) == Len(p) <= Len(s) /\ SubSeq(s, 1, Len(p)) = p

\* s.endsWith(p)
EndsWith(s, p) == Len(p) <= Len(s) /\ SubSeq(s, Len(s) - Len(p) + 1, Len(s)) = p

\* s.substring(n) / s.slice(n): s without its first n characters
Substring(s, n) == SubSeq(s, n + 1, Len(s))

\* 1-based position of the first occurrence of p in s, 0 when there is none
\* (s.indexOf(p) + 1)
IndexOf(s, p) ==
  LET hits == { i \in 1..(Len(s) - Len(p) + 1) : SubSeq(s, i, i + Len(p) - 1) = p }
  IN  IF hits = {} THEN 0 ELSE CHOOSE i \in hits : \A j \in hits : i <= j

\* 1-based position of the last occurrence of p in s, 0 when there is none
LastIndexOf(s, p) ==
  LET hits == { i \in 1..(Len(s) - Len(p) + 1) : SubSeq(s, i, i + Len(p) - 1) = p }
  IN  IF hits = {} THEN 0 ELSE CHOOSE i \in hits : \A j \in hits : i >= j

\* s.includes(p)
Includes(s, p) == IndexOf(s, p) # 0

\* s.replace(p, r) with a string pattern: only the first occurrence is replaced
ReplaceFirst(s, p, r) ==
  LET i == IndexOf(s, p)
  IN  IF i = 0 THEN s
      ELSE SubSeq(s, 1, i - 1) \o r \o SubSeq(s, i + Len(p), Len(s))

\* s.trim(): the model's only whitespace character is the blank
RECURSIVE TrimLeft(_)
TrimLeft(s) == IF s # <<>> /\ Head(s) = " " THEN TrimLeft(Tail(s)) ELSE s
RECURSIVE TrimRight(_)
TrimRight(s) ==
  IF s # <<>> /\ s[Len(s)] = " " THEN TrimRight(SubSeq(s, 1, Len(s) - 1)) ELSE s
Trim(s) == TrimRight(TrimLeft(s))

\* Decimal digits of a natural number
Digit(n) == <<"0", "1", "2", "3", "4", "5", "6", "7", "8", "9">>[n + 1]
RECURSIVE Decimal(_)
Decimal(n) == IF n < 10 THEN <<Digit(n)>> ELSE Decimal(n \div 10) \o <<Digit(n % 10)>>


-----------------------------------------------------------------------------
(***************************************************************************)
(* Record<string,string> and Map: a sequence of [path, ...] entries in      *)
(* insertion order, as Object.entries and Map.entries enumerate them.       *)
(***************************************************************************)
Keys(m) == { m[i].path : i \in 1..Len(m) }

EntryOf(m, k) == m[CHOOSE i \in 1..Len(m) : m[i].path = k]

\* The assignment m[k] = v of a Record<string,string>, dropping every other key.
MapPutReset(m, k, v) == <<[path |-> k, id |-> v]>>

\* m[k] = v: an existing key keeps its place and gets the new value, a new key
\* is appended (deploy.ts:70, 106, 132, 169, 436)
MapPut(m, k, v) ==
  IF k \in Keys(m)
    THEN [i \in 1..Len(m) |-> IF m[i].path = k THEN [path |-> k, id |-> v] ELSE m[i]]
    ELSE Append(m, [path |-> k, id |-> v])

-----------------------------------------------------------------------------
(***************************************************************************)
(* The stored site: the keys the crawler left in the blob store for host h, *)
(* and what each file contains.                                             *)
(***************************************************************************)
hostname == <<"h">>

KeyIndex == <<"h", "/", "i", "n", "d", "e", "x", ".", "h", "t", "m", "l">>
KeyAbout == <<"h", "/", "a", ".", "h", "t", "m", "l">>
KeySite  == <<"h", "/", "s", ".", "c", "s", "s">>
KeyTheme == <<"h", "/", "t", ".", "c", "s", "s">>
KeyLogo  == <<"h", "/", "i", ".", "p", "n", "g">>
\* from the asset URL https://h//j.png (extract.ts:385 keeps the repeated slash)
KeyIcon  == <<"h", "/", "/", "j", ".", "p", "n", "g">>

StoredKeys == {KeyIndex, KeyAbout, KeySite, KeyTheme, KeyLogo, KeyIcon}

PathIndex == <<"/", "i", "n", "d", "e", "x", ".", "h", "t", "m", "l">>
PathAbout == <<"/", "a", ".", "h", "t", "m", "l">>
PathSite  == <<"/", "s", ".", "c", "s", "s">>
PathTheme == <<"/", "t", ".", "c", "s", "s">>
PathLogo  == <<"/", "i", ".", "p", "n", "g">>
PathIcon  == <<"/", "/", "j", ".", "p", "n", "g">>

\* A reference of a document: the url as written, and the stored path it denotes.
Ref(url, target) == [url |-> url, target |-> target]

\* The references each stored file contains (href/src attributes of a page,
\* url() functions of a stylesheet); images contain none.
ContentOf(key) ==
  CASE key = KeyIndex -> << Ref(<<"/", "a", ".", "h", "t", "m", "l">>, PathAbout),
                            Ref(<<"s", ".", "c", "s", "s">>, PathSite),
                            Ref(<<"/", "i", ".", "p", "n", "g", "?", "v">>, PathLogo) >>
    [] key = KeyAbout -> << Ref(<<"i", "n", "d", "e", "x", ".", "h", "t", "m", "l">>, PathIndex),
                            Ref(<<"/", "t", ".", "c", "s", "s">>, PathTheme) >>
    [] key = KeySite  -> << Ref(<<"/", "i", ".", "p", "n", "g">>, PathLogo),
                            Ref(<<"t", ".", "c", "s", "s">>, PathTheme) >>
    [] key = KeyTheme -> << Ref(<<"i", ".", "p", "n", "g">>, PathLogo) >>
    [] OTHER -> << >>

\* The urls of a content, as the bytes that are uploaded
UrlsOf(content) == [i \in 1..Len(content) |-> content[i].url]

-----------------------------------------------------------------------------
(***************************************************************************)
(* getSiteContent (deploy.ts:240-276)                                       *)
(***************************************************************************)
Html     == <<".", "h", "t", "m", "l">>
Htm      == <<".", "h", "t", "m">>
Slash    == <<"/">>

\* pageFiles: file.endsWith('.html') || file.endsWith('.htm')  (deploy.ts:249-252)
IsPageFile(file) == EndsWith(file, Html) \/ EndsWith(file, Htm)

\* filePath.replace(`${hostname}/`, '/')  (deploy.ts:266)
RelativePath(filePath) == ReplaceFirst(filePath, hostname \o Slash, Slash)

\* The entries of allFileContents that the loop of deploy.ts:265-273 puts into
\* pages (wantPages) or into assets, in the order of allFileContents.
RECURSIVE SiteEntries(_, _)
SiteEntries(files, wantPages) ==
  IF files = <<>> THEN <<>>
  ELSE LET f == Head(files)
           rest == SiteEntries(Tail(files), wantPages)
       IN  IF IsPageFile(f) = wantPages
             THEN <<[path |-> RelativePath(f), content |-> ContentOf(f)]>> \o rest
             ELSE rest

getSiteContent(files) ==
  [pages |-> SiteEntries(files, TRUE), assets |-> SiteEntries(files, FALSE)]

-----------------------------------------------------------------------------
(***************************************************************************)
(* getMimeType (deploy.ts:447-471): only the text/css answer is used.       *)
(***************************************************************************)
Dot == <<".">>
Css == <<"c", "s", "s">>

\* path.split('.').pop(): the text after the last '.', the whole path without one
Extension(path) == Substring(path, LastIndexOf(path, Dot))

\* getMimeType(path) === 'text/css'
IsCss(path) == Extension(path) = Css

-----------------------------------------------------------------------------
(***************************************************************************)
(* replaceUrlsWithTxIds (deploy.ts:292-429)                                 *)
(***************************************************************************)
\* normalizeUrl (deploy.ts:296-317)
normalizeUrl(url) ==
  LET leading(t)  == IF StartsWith(t, Slash) THEN Substring(t, 1) ELSE t
      trailing(t) == IF EndsWith(t, Slash) THEN SubSeq(t, 1, Len(t) - 1) ELSE t
      html(t)     == IF EndsWith(t, Html) THEN ReplaceFirst(t, Html, <<>>) ELSE t
      steps(t)    == IF t = <<>> THEN <<>> ELSE html(trailing(leading(t)))
  IN  steps(Trim(url))

\* lookup[key] after the loop of deploy.ts:320-326: the id of the last entry of
\* fileMapping whose normalized path is key; <<>> (undefined) when there is none
lookup(fm, key) ==
  LET last(hits) == IF hits = {} THEN <<>>
                    ELSE fm[CHOOSE i \in hits : \A j \in hits : i >= j].id
  IN  IF key = <<>> THEN <<>>
      ELSE last({ i \in 1..Len(fm) : normalizeUrl(fm[i].path) = key })

ArweaveNet == <<"a", "r", "w", "e", "a", "v", "e", ".", "n", "e", "t">>
HttpsArweave == <<"h", "t", "t", "p", "s", ":", "/", "/">> \o ArweaveNet \o Slash
DocsPrefix == <<"d", "o", "c", "s", "/">>

\* The prefixes of deploy.ts:344-348 that make tryReplaceUrl return null
SkippedPrefixes ==
  { <<"h", "t", "t", "p", ":", "/", "/">>, <<"h", "t", "t", "p", "s", ":", "/", "/">>,
    <<"/", "/">>, <<"m", "a", "i", "l", "t", "o", ":">>, <<"t", "e", "l", ":">>,
    <<"f", "t", "p", ":">>, <<"#">>,
    <<"j", "a", "v", "a", "s", "c", "r", "i", "p", "t", ":">>,
    <<"d", "a", "t", "a", ":">> }

\* A split that cuts nothing off.
BaseOfWhole(url) == url

\* url.split(/[?#]/)[0]: the text before the first '?' or '#'
BaseOf(url) ==
  LET cuts == { i \in 1..Len(url) : url[i] \in {"?", "#"} }
  IN  IF cuts = {} THEN url
      ELSE SubSeq(url, 1, (CHOOSE i \in cuts : \A j \in cuts : i <= j) - 1)

\* Buffer.from(s, 'base64').toString() (deploy.ts:336).  Base64Alphabet is the
\* alphabet of the encoding, Ascii the characters of the codes 32..126 in order
\* (the three that a string of this module cannot hold are written out).
Base64Alphabet ==
  <<"A", "B", "C", "D", "E", "F", "G", "H", "I", "J", "K", "L", "M", "N",
    "O", "P", "Q", "R", "S", "T", "U", "V", "W", "X", "Y", "Z", "a", "b",
    "c", "d", "e", "f", "g", "h", "i", "j", "k", "l", "m", "n", "o", "p",
    "q", "r", "s", "t", "u", "v", "w", "x", "y", "z", "0", "1", "2", "3",
    "4", "5", "6", "7", "8", "9", "+", "/">>
Ascii ==
  <<" ", "!", "<quote>", "#", "$", "%", "&", "'", "(", ")", "*", "+", ",", "-",
    ".", "/", "0", "1", "2", "3", "4", "5", "6", "7", "8", "9", ":", ";",
    "<", "=", ">", "?", "@", "A", "B", "C", "D", "E", "F", "G", "H", "I",
    "J", "K", "L", "M", "N", "O", "P", "Q", "R", "S", "T", "U", "V", "W",
    "X", "Y", "Z", "[", "<backslash>", "]", "^", "_", "<backtick>", "a", "b", "c", "d", "e",
    "f", "g", "h", "i", "j", "k", "l", "m", "n", "o", "p", "q", "r", "s",
    "t", "u", "v", "w", "x", "y", "z", "{", "|", "}", "~">>

\* The bytes of the data before the first '=', as characters.  '-' and '_' are
\* read as '+' and '/'; "<?>" stands for every character toString() gives for
\* a byte that is not printable ASCII.
Base64Decode(s) ==
  LET pad  == IndexOf(s, <<"=">>)
      data == IF pad = 0 THEN s ELSE SubSeq(s, 1, pad - 1)
      value(i) ==
        IF i > Len(data) THEN 0
        ELSE IF data[i] = "-" THEN 62
        ELSE IF data[i] = "_" THEN 63
        ELSE (CHOOSE n \in 1..Len(Base64Alphabet) : Base64Alphabet[n] = data[i]) - 1
      byte(k) == LET a   == (8 * k) \div 6
                     off == (8 * k) % 6
                 IN  ((value(a + 1) * 64 + value(a + 2)) \div 2^(4 - off)) % 256
      char(b) == IF b \in 32..126 THEN Ascii[b - 31] ELSE "<?>"
  IN  [k \in 1..((Len(data) * 6) \div 8) |-> char(byte(k - 1))]

\* fakeMatch[1] of deploy.ts:333: the payload of a link of an earlier dry run,
\* <<>> when the url is none
fakeMatch(url) ==
  LET prefixes == { <<"h", "t", "t", "p", "s", ":", "/", "/", "a", "r", "w", "e", "a", "v", "e", ".", "n", "e", "t", "/", "f", "a", "k", "e", "_">>, <<"h", "t", "t", "p", ":", "/", "/", "a", "r", "w", "e", "a", "v", "e", ".", "n", "e", "t", "/", "f", "a", "k", "e", "_">> }
      matching == { p \in prefixes : StartsWith(url, p) /\ Len(url) > Len(p) }
      payload  == Substring(url, Len(CHOOSE p \in matching : TRUE))
  IN  IF matching # {} /\ Range(payload) \subseteq Range(Base64Alphabet) \cup {"=", "-"}
        THEN payload ELSE <<>>

\* realTx of deploy.ts:334-339, <<>> when there is none
realTx(url, fm) ==
  LET either(first, decoded) ==
        IF first # <<>> THEN first ELSE lookup(fm, normalizeUrl(decoded))
      stripped(decoded) ==
        IF StartsWith(decoded, Slash) THEN Substring(decoded, 1) ELSE decoded
      resolved(decoded) == either(lookup(fm, normalizeUrl(stripped(decoded))), decoded)
      decodedOf(payload) == IF payload = <<>> THEN <<>> ELSE resolved(Base64Decode(payload))
  IN  decodedOf(fakeMatch(url))

\* tryReplaceUrl (deploy.ts:329-376); <<>> stands for null
tryReplaceUrl(url, fm) ==
  LET found(txId, queryAndFragment) ==
        IF txId # <<>> THEN HttpsArweave \o txId \o queryAndFragment ELSE <<>>
      lookupKey(normalizedUrl) ==
        IF StartsWith(normalizedUrl, DocsPrefix) THEN Substring(normalizedUrl, 5)
        ELSE normalizedUrl
      split(cleanUrl, baseUrl) ==
        found(lookup(fm, lookupKey(normalizeUrl(baseUrl))),
              Substring(cleanUrl, Len(baseUrl)))
      relative(cleanUrl) == split(cleanUrl, BaseOf(cleanUrl))
      fake(real) ==
        IF real # <<>> THEN HttpsArweave \o real
        ELSE IF (\E p \in SkippedPrefixes : StartsWith(url, p)) \/ Includes(url, ArweaveNet)
               THEN <<>>
        ELSE relative(Trim(url))
  IN  IF Trim(url) = <<>> THEN <<>> ELSE fake(realTx(url, fm))

\* What the callbacks of deploy.ts:381-397 return for the url they captured
Replaced(url, fm) ==
  LET orKept(replacement) == IF replacement # <<>> THEN replacement ELSE url
  IN  orKept(tryReplaceUrl(url, fm))

\* replaceUrlsWithTxIds on the urls of a document: each url the patterns of
\* deploy.ts:379-406 capture is replaced when tryReplaceUrl finds it, and kept
\* otherwise
replaceUrlsWithTxIds(urls, fm) ==
  [i \in 1..Len(urls) |-> Replaced(urls[i], fm)]

\* A negative lookahead of deploy.ts:380, 390 on the text that follows it; the
\* patterns carry the flag i, so the letters A-Z match as a-z
LooksAhead(prefixes, text) ==
  LET lower(c) == IF \E k \in 1..26 : Base64Alphabet[k] = c
                    THEN Base64Alphabet[(CHOOSE k \in 1..26 : Base64Alphabet[k] = c) + 26]
                    ELSE c
  IN  \E p \in prefixes : StartsWith([i \in 1..Len(text) |-> lower(text[i])], p)

\* An attribute pattern without negative lookahead.
attributePatternAnyUrl(value, fm) == Replaced(value, fm)

\* attributePattern (deploy.ts:380-387) on the value of one attribute; its
\* lookahead rejects the prefixes tryReplaceUrl skips
attributePattern(value, fm) ==
  IF LooksAhead(SkippedPrefixes, value) THEN value ELSE Replaced(value, fm)

\* cssUrlPattern (deploy.ts:390-397) on the text between "url(" and ")", written
\* without quotes.  \s* takes the leading blanks; when the lookahead rejects
\* what follows them, the pattern backtracks by one blank and captures from it.
cssUrlPattern(text, fm) ==
  LET body == TrimLeft(text)
      lead == SubSeq(text, 1, Len(text) - Len(body))
      lookahead == { <<"h", "t", "t", "p", ":", "/", "/">>, <<"h", "t", "t", "p", "s", ":", "/", "/">>, <<"/", "/">>, <<"d", "a", "t", "a", ":">> }
  IN  IF body = <<>> THEN text
      ELSE IF ~LooksAhead(lookahead, body) THEN lead \o Replaced(body, fm)
      ELSE IF lead # <<>>
             THEN SubSeq(lead, 1, Len(lead) - 1) \o Replaced(<<" ">> \o body, fm)
      ELSE text

\* srcset.split(',') (deploy.ts:412)
RECURSIVE Split(_, _)
Split(s, c) ==
  LET i == IndexOf(s, <<c>>)
  IN  IF i = 0 THEN <<s>> ELSE <<SubSeq(s, 1, i - 1)>> \o Split(Substring(s, i), c)

\* srcsetParts.join(', ') (deploy.ts:426)
RECURSIVE Join(_)
Join(parts) ==
  IF Len(parts) = 1 THEN parts[1] ELSE parts[1] \o <<",", " ">> \o Join(Tail(parts))

\* srcsetPattern (deploy.ts:410-427) on the value of a srcset attribute
srcsetPattern(srcset, fm) ==
  LET replaced(part) ==
        LET trimmed    == Trim(part)
            spaceIndex == IndexOf(trimmed, <<" ">>)
            url        == IF spaceIndex > 0 THEN SubSeq(trimmed, 1, spaceIndex - 1)
                          ELSE trimmed
            descriptor == IF spaceIndex > 0 THEN Substring(trimmed, spaceIndex - 1)
                          ELSE <<>>
            orKept(replacement) ==
              IF replacement # <<>> THEN replacement \o descriptor ELSE trimmed
        IN  orKept(tryReplaceUrl(url, fm))
      parts == Split(srcset, ",")
  IN  Join([i \in 1..Len(parts) |-> replaced(parts[i])])

\* replaceUrlsWithTxIds on one reference of a document.  ref.kind names the
\* construct the reference is written in, ref.text the text the pattern of that
\* construct captures; the value of a srcset attribute is captured by
\* attributePattern first and by srcsetPattern after it.  ref.doc, the path of
\* the document, is not among the arguments of replaceUrlsWithTxIds
\* (deploy.ts:86, 150).
replaceReference(ref, fm) ==
  CASE ref.kind = "attribute" -> attributePattern(ref.text, fm)
    [] ref.kind = "cssUrl"    -> cssUrlPattern(ref.text, fm)
    [] ref.kind = "srcset"    -> srcsetPattern(attributePattern(ref.text, fm), fm)

-----------------------------------------------------------------------------
(***************************************************************************)
(* createArweaveManifest (deploy.ts:431-445)                                *)
(***************************************************************************)
IndexHtml == <<"i", "n", "d", "e", "x", ".", "h", "t", "m", "l">>

\* const manifestPath = path.startsWith('/') ? path.substring(1) : path
manifestPath(path) == IF StartsWith(path, Slash) THEN Substring(path, 1) ELSE path

\* the loop of deploy.ts:434-437 over the first n entries of fileMapping
RECURSIVE ManifestPaths(_, _)
ManifestPaths(fm, n) ==
  IF n = 0 THEN <<>>
  ELSE MapPut(ManifestPaths(fm, n - 1), manifestPath(fm[n].path), fm[n].id)

createArweaveManifest(fm) ==
  [manifest |-> "arweave/paths", version |-> "0.1.0",
   index |-> [path |-> IndexHtml], paths |-> ManifestPaths(fm, Len(fm))]

-----------------------------------------------------------------------------
(***************************************************************************)
(* deployWithTurbo (deploy.ts:21-216)                                       *)
(***************************************************************************)
\* `manifest` before createArweaveManifest has been called
NoManifest == [manifest |-> "none"]

\* The identifier the storage network returns for its n-th accepted upload
TxId(n) == <<"T">> \o Decimal(n)

Upload(pass, path, data) == [pass |-> pass, path |-> path, data |-> data]

\* A loop that goes on without waiting for the upload it has started.
AwaitedNever == TRUE

\* `await turbo.upload(...)` (deploy.ts:57, 93, 121, 156, 189): the function
\* goes on only when the upload it has started is settled
Awaited == inflight = {}

\* Every blob-store content of at most MaxFiles files, in every order in which
\* getMultipleFiles can have filled its result map (README.md:185-203)
StoredSites ==
  UNION { { f \in [1..n -> StoredKeys] : \A i, j \in 1..n : f[i] = f[j] => i = j }
          : n \in 0..MaxFiles }

\* No overlapping crawlAndSave / analyzeSite calls (extract.ts) is running
ConcurrentIdle == ops = <<>> /\ sharedBrowser = 0 /\ browsers = <<>>

\* No getMultipleFiles (README.md:185-203) is running
RetrievalIdle == bulkKeys = <<>> /\ retrievals = <<>> /\ results = <<>> /\ bulk = "idle"

\* No fundBundlerIfNeeded (arweave.ts:127-198) is running
FundingIdle == fundpc = "idle" /\ estimatedCostAR = 0 /\ arweaveBalance = 0 /\ turboBalance = 0
  /\ newTurboBalance = 0 /\ fundingTxs = <<>>
  /\ fundResult = [funded |-> FALSE, fundingTxId |-> "none", error |-> "none"]

ServicesIdle == ConcurrentIdle /\ RetrievalIdle /\ FundingIdle

\* No pure function is being applied
FunctionsIdle == fpc = "idle" /\ finput = [op |-> "none"] /\ fout1 = <<>> /\ fout2 = <<>>

CrawlIdle ==
  /\ cpc = "idle" /\ queue = <<>> /\ visited = {} /\ savedPages = <<>>
  /\ assetQueue = <<>> /\ savedAssets = <<>> /\ browserInstance = "none"
  /\ browserEvents = <<>> /\ fetched = <<>> /\ assetIdx = 0 /\ maxPages = 0
  /\ delay = 0 /\ site = <<>> /\ faults = 0 /\ bucket = {} /\ tempDir = {}
  /\ downloads = <<>> /\ analysis = <<>>

Init ==
  /\ stored \in StoredSites
  /\ dpc = "start"
  /\ pages = <<>> /\ assets = <<>> /\ idx = 0
  /\ inflight = {} /\ fileMapping = <<>> /\ nextId = 0
  /\ uploads = <<>> /\ manifest = NoManifest
  /\ DRY_RUN = FALSE
  /\ CrawlIdle
  /\ FunctionsIdle
  /\ ServicesIdle

\* deploy.ts:27-35: no wallet was passed and none can be loaded
DeployNoWallet ==
  /\ dpc = "start"
  /\ dpc' = "rejected"
  /\ UNCHANGED <<DRY_RUN, stored, pages, assets, idx, inflight, fileMapping, nextId, uploads,
                 manifest, crawlVars, functionVars, serviceVars>>

\* deploy.ts:37-41
DeployStart ==
  /\ dpc = "start"
  /\ pages' = getSiteContent(stored).pages
  /\ assets' = getSiteContent(stored).assets
  /\ idx' = 0
  /\ dpc' = "pass1"
  /\ UNCHANGED <<DRY_RUN, stored, inflight, fileMapping, nextId, uploads, manifest, crawlVars, functionVars, serviceVars>>

\* One iteration of a loop over entries that does not upload: pass 1 skips the
\* text/css entries, pass 2 the others (deploy.ts:48, 83)
SkipEntry(pass, entries, css) ==
  /\ dpc = pass /\ Awaited
  /\ idx < Len(entries)
  /\ IsCss(entries[idx + 1].path) = css
  /\ idx' = idx + 1
  /\ UNCHANGED <<DRY_RUN, stored, dpc, pages, assets, inflight, fileMapping, nextId, uploads,
                 manifest, crawlVars, functionVars, serviceVars>>

\* One iteration of a loop up to its turbo.upload call, with the bytes it sends
BeginUpload(pass, entries, data) ==
  /\ dpc = pass /\ Awaited
  /\ idx < Len(entries)
  /\ idx' = idx + 1
  /\ inflight' = inflight \cup {Upload(pass, entries[idx + 1].path, data)}
  /\ UNCHANGED <<DRY_RUN, stored, dpc, pages, assets, fileMapping, nextId, uploads,
                 manifest, crawlVars, functionVars, serviceVars>>

\* The end of a for-loop: the next pass starts
EndPass(pass, entries, next) ==
  /\ dpc = pass /\ Awaited
  /\ idx >= Len(entries)
  /\ dpc' = next
  /\ idx' = 0
  /\ UNCHANGED <<DRY_RUN, stored, pages, assets, inflight, fileMapping, nextId, uploads,
                 manifest, crawlVars, functionVars, serviceVars>>

\* Pass 1 (deploy.ts:45-76)
Pass1Skip == SkipEntry("pass1", assets, TRUE)
Pass1Upload ==
  /\ ~DRY_RUN
  /\ idx < Len(assets) /\ ~IsCss(assets[idx + 1].path)
  /\ BeginUpload("pass1", assets, UrlsOf(assets[idx + 1].content))
Pass1End == EndPass("pass1", assets, "pass2")

\* Pass 2 (deploy.ts:80-112)
Pass2Skip == SkipEntry("pass2", assets, FALSE)
Pass2Upload ==
  /\ ~DRY_RUN
  /\ idx < Len(assets) /\ IsCss(assets[idx + 1].path)
  /\ BeginUpload("pass2", assets,
                 replaceUrlsWithTxIds(UrlsOf(assets[idx + 1].content), fileMapping))
Pass2End == EndPass("pass2", assets, "pass3a")

\* Pass 3a (deploy.ts:119-139)
Pass3aUpload ==
  /\ idx < Len(pages)
  /\ BeginUpload("pass3a", pages, UrlsOf(pages[idx + 1].content))
Pass3aEnd == EndPass("pass3a", pages, "pass3b")

\* A pass 3b that uploads the page as stored, without rewriting its urls.
Pass3bUploadRaw ==
  /\ idx < Len(pages)
  /\ BeginUpload("pass3b", pages, UrlsOf(pages[idx + 1].content))

\* Pass 3b (deploy.ts:147-175)
Pass3bUpload ==
  /\ ~DRY_RUN
  /\ idx < Len(pages)
  /\ BeginUpload("pass3b", pages,
                 replaceUrlsWithTxIds(UrlsOf(pages[idx + 1].content), fileMapping))
Pass3bEnd == EndPass("pass3b", pages, "manifest")

\* An upload that resolves without its identifier being recorded in fileMapping.
UploadSucceedsUnrecorded ==
  \E u \in inflight :
    /\ u.pass # "manifest"
    /\ nextId' = nextId + 1
    /\ uploads' = Append(uploads, [pass |-> u.pass, path |-> u.path, data |-> u.data,
                                   ok |-> TRUE, id |-> TxId(nextId + 1)])
    /\ inflight' = inflight \ {u}
    /\ UNCHANGED <<DRY_RUN, stored, dpc, pages, assets, idx, fileMapping, manifest, crawlVars, functionVars, serviceVars>>

\* turbo.upload resolves: the identifier is recorded under the path
\* (deploy.ts:66-70, 102-106, 132, 165-169)
UploadSucceeds ==
  \E u \in inflight :
    /\ u.pass # "manifest"
    /\ nextId' = nextId + 1
    /\ fileMapping' = MapPut(fileMapping, u.path, TxId(nextId + 1))
    /\ uploads' = Append(uploads, [pass |-> u.pass, path |-> u.path, data |-> u.data,
                                   ok |-> TRUE, id |-> TxId(nextId + 1)])
    /\ inflight' = inflight \ {u}
    /\ UNCHANGED <<DRY_RUN, stored, dpc, pages, assets, idx, manifest, crawlVars, functionVars, serviceVars>>

\* turbo.upload rejects: the catch block logs and the loop goes on
\* (deploy.ts:72-74, 108-110, 136-138, 172-174)
UploadFails ==
  \E u \in inflight :
    /\ u.pass # "manifest"
    /\ uploads' = Append(uploads, [pass |-> u.pass, path |-> u.path, data |-> u.data,
                                   ok |-> FALSE, id |-> <<>>])
    /\ inflight' = inflight \ {u}
    /\ UNCHANGED <<DRY_RUN, stored, dpc, pages, assets, idx, fileMapping, nextId, manifest,
                   crawlVars, functionVars, serviceVars>>

\* deploy.ts:184-197: the manifest is built and its upload is started
BuildManifest ==
  /\ ~DRY_RUN
  /\ dpc = "manifest" /\ Awaited
  /\ manifest = NoManifest
  /\ manifest' = createArweaveManifest(fileMapping)
  /\ inflight' = inflight \cup {Upload("manifest", <<>>, <<>>)}
  /\ UNCHANGED <<DRY_RUN, stored, dpc, pages, assets, idx, fileMapping, nextId, uploads,
                 crawlVars, functionVars, serviceVars>>

\* deploy.ts:198-215: the manifest upload resolves and the result is returned
ManifestUploaded ==
  \E u \in inflight :
    /\ u.pass = "manifest"
    /\ dpc = "manifest"
    /\ nextId' = nextId + 1
    /\ uploads' = Append(uploads, [pass |-> u.pass, path |-> u.path, data |-> u.data,
                                   ok |-> TRUE, id |-> TxId(nextId + 1)])
    /\ inflight' = inflight \ {u}
    /\ dpc' = "done"
    /\ UNCHANGED <<DRY_RUN, stored, pages, assets, idx, fileMapping, manifest, crawlVars, functionVars, serviceVars>>

\* deploy.ts:189: the manifest upload rejects and so does deployWithTurbo
ManifestUploadFails ==
  \E u \in inflight :
    /\ u.pass = "manifest"
    /\ dpc = "manifest"
    /\ uploads' = Append(uploads, [pass |-> u.pass, path |-> u.path, data |-> u.data,
                                   ok |-> FALSE, id |-> <<>>])
    /\ inflight' = inflight \ {u}
    /\ dpc' = "rejected"
    /\ UNCHANGED <<DRY_RUN, stored, pages, assets, idx, fileMapping, nextId, manifest,
                   crawlVars, functionVars, serviceVars>>

Next ==
  \/ DeployNoWallet
  \/ DeployStart
  \/ Pass1Skip
  \/ Pass1Upload
  \/ Pass1End
  \/ Pass2Skip
  \/ Pass2Upload
  \/ Pass2End
  \/ Pass3aUpload
  \/ Pass3aEnd
  \/ Pass3bUpload
  \/ Pass3bEnd
  \/ UploadSucceeds
  \/ UploadFails
  \/ BuildManifest
  \/ ManifestUploaded
  \/ ManifestUploadFails

Spec == Init /\ [][Next]_vars

-----------------------------------------------------------------------------
(***************************************************************************)
(* Properties of deployWithTurbo                                            *)
(***************************************************************************)
AssetPaths    == { assets[i].path : i \in 1..Len(assets) }
PagePaths     == { pages[i].path : i \in 1..Len(pages) }
\* Ground truth of the stored site, independent of getMimeType
StylesheetPaths == AssetPaths \cap {PathSite, PathTheme}
LeafAssetPaths  == AssetPaths \ StylesheetPaths

\* The paths whose upload of the given pass has settled (resolved or rejected)
Finished(pass) == { uploads[i].path : i \in { j \in 1..Len(uploads) : uploads[j].pass = pass } }

\* The references of the stored document at path
RefsOf(path) ==
  LET es == { i \in 1..Len(assets) : assets[i].path = path }
      ps == { i \in 1..Len(pages) : pages[i].path = path }
  IN  IF es # {} THEN assets[CHOOSE i \in es : TRUE].content
      ELSE IF ps # {} THEN pages[CHOOSE i \in ps : TRUE].content
      ELSE <<>>

\* `https://arweave.net/${id}` followed by the query and fragment of url
RewrittenTo(id, url) == HttpsArweave \o id \o Substring(url, Len(BaseOf(url)))

\* C1: while a stylesheet upload of pass 2 is running every non-CSS asset
\* upload of pass 1 has settled, and while a page upload of pass 3a or 3b is
\* running every stylesheet upload of pass 2 has settled.
C1_PassesOrdered ==
  \A u \in inflight :
    /\ u.pass = "pass2" => LeafAssetPaths \subseteq Finished("pass1")
    /\ u.pass \in {"pass3a", "pass3b"} => StylesheetPaths \subseteq Finished("pass2")

C1_Witness ==
  /\ \E u \in inflight : u.pass = "pass3b"
  /\ LeafAssetPaths # {} /\ StylesheetPaths # {}
  /\ \E i \in 1..Len(uploads) : uploads[i].pass = "pass1" /\ ~uploads[i].ok

\* C2 as claimed: when a stylesheet's rewritten bytes are uploaded in pass 2,
\* fileMapping holds an identifier for every stored asset it references.
C2_Claimed ==
  \A u \in inflight :
    u.pass = "pass2" =>
      \A k \in 1..Len(RefsOf(u.path)) :
        RefsOf(u.path)[k].target \in AssetPaths
          => RefsOf(u.path)[k].target \in Keys(fileMapping)

\* C2 as amended: when a stylesheet's rewritten bytes are uploaded in pass 2,
\* the pass-1 upload of every stored non-stylesheet asset it references has
\* settled, and fileMapping holds the identifier that upload returned unless
\* the upload failed.
C2_LeafAssetsMapped ==
  \A u \in inflight :
    u.pass = "pass2" =>
      \A k \in 1..Len(RefsOf(u.path)) :
        LET a == RefsOf(u.path)[k].target
        IN  a \in LeafAssetPaths =>
              \E i \in 1..Len(uploads) :
                /\ uploads[i].pass = "pass1" /\ uploads[i].path = a
                /\ uploads[i].ok =>
                     /\ a \in Keys(fileMapping)
                     /\ EntryOf(fileMapping, a).id = uploads[i].id

C2_Witness ==
  \E u \in inflight :
    /\ u.pass = "pass2" /\ u.path = PathSite
    /\ PathLogo \in Keys(fileMapping)
    /\ u.data[1] = RewrittenTo(EntryOf(fileMapping, PathLogo).id, RefsOf(PathSite)[1].url)

\* C3: no step of a run removes a path from the keys of fileMapping.
C3_MapNeverShrinks == [][Keys(fileMapping) \subseteq Keys(fileMapping')]_vars

C3_Witness ==
  /\ Len(fileMapping) >= 2
  /\ \E i, j \in 1..Len(uploads) :
       /\ i < j /\ uploads[i].path = uploads[j].path
       /\ uploads[i].ok /\ uploads[j].ok
       /\ EntryOf(fileMapping, uploads[j].path).id = uploads[j].id

\* C4: once the manifest is built, no page path is recorded in fileMapping, or
\* routed by the manifest, under the identifier of its raw pass-3a upload.
C4_ManifestUsesFinalIds ==
  manifest # NoManifest =>
    \A i \in 1..Len(uploads) :
      (uploads[i].pass = "pass3a" /\ uploads[i].ok) =>
        /\ \A e \in Range(fileMapping) : e.id # uploads[i].id
        /\ \A e \in Range(manifest.paths) : e.id # uploads[i].id

\* The latest upload of path that resolved before the i-th upload began, 0
\* when there is none
LastOkBefore(i, path) ==
  LET js == { j \in 1..(i - 1) : uploads[j].path = path /\ uploads[j].ok }
  IN  IF js = {} THEN 0 ELSE CHOOSE j \in js : \A k \in js : k <= j

LinksToOtherPage(i, k) ==
  /\ uploads[i].pass = "pass3b"
  /\ k \in 1..Len(RefsOf(uploads[i].path))
  /\ RefsOf(uploads[i].path)[k].target \in PagePaths \ {uploads[i].path}

FinalPass(path) ==
  IF path \in PagePaths THEN "pass3b" ELSE IF IsCss(path) THEN "pass2" ELSE "pass1"

\* C6: when deployWithTurbo returns, a path whose final upload failed has no
\* entry in fileMapping and no route in the manifest.
C6_FailedItemsExcluded ==
  dpc = "done" =>
    \A i \in 1..Len(uploads) :
      (~uploads[i].ok /\ uploads[i].pass = FinalPass(uploads[i].path)) =>
        /\ uploads[i].path \notin Keys(fileMapping)
        /\ manifestPath(uploads[i].path) \notin Keys(manifest.paths)

\* C7: with an empty fileMapping no manifest is built and the run does not
\* return a result.
C7_NoEmptyManifest ==
  /\ manifest # NoManifest => manifest.paths # <<>>
  /\ dpc = "done" => fileMapping # <<>>

\* C8: the index.path of a manifest with routes names one of its routes.
C8_IndexIsARoute ==
  (manifest # NoManifest /\ manifest.paths # <<>>) =>
    manifest.index.path \in Keys(manifest.paths)

\* C9: no key of the manifest's paths begins with '/'.
C9_NoLeadingSlash ==
  manifest # NoManifest =>
    \A k \in Keys(manifest.paths) : ~StartsWith(k, Slash)

-----------------------------------------------------------------------------
(***************************************************************************)
(* The crawled site (the rendering backend behind page.goto) and the URLs   *)
(* of the crawl.                                                            *)
(***************************************************************************)
Origin   == <<"h", "t", "t", "p", "s", ":", "/", "/", "h">>
startUrl == Origin \o Slash
UrlA      == Origin \o <<"/", "a">>
UrlAFrag  == Origin \o <<"/", "a", "#", "t">>
UrlASlash == Origin \o <<"/", "a", "/">>
UrlB      == Origin \o <<"/", "b">>
UrlQuick     == Origin \o <<"/", "q", "u", "i", "c", "k", "s", "t", "a", "r", "t">>
UrlQuickHtml == Origin \o <<"/", "q", "u", "i", "c", "k", "s", "t", "a", "r", "t", ".", "h", "t", "m", "l">>
AssetCss  == Origin \o <<"/", "s", ".", "c", "s", "s">>
AssetLogo == Origin \o <<"/", "i", ".", "p", "n", "g">>
AssetGone == Origin \o <<"/", "x", ".", "p", "n", "g">>

\* commonDocPaths (extract.ts:181-188)
commonDocPaths ==
  << <<"/", "q", "u", "i", "c", "k", "s", "t", "a", "r", "t">>,
     <<"/", "q", "u", "i", "c", "k", "s", "t", "a", "r", "t", "/">>,
     <<"/", "q", "u", "i", "c", "k", "s", "t", "a", "r", "t", ".", "h", "t", "m", "l">>,
     <<"/", "a", "p", "i">>,
     <<"/", "a", "p", "i", "/">>,
     <<"/", "a", "p", "i", ".", "h", "t", "m", "l">>,
     <<"/", "d", "o", "c", "s", "/", "a", "p", "i">>,
     <<"/", "d", "o", "c", "s", "/", "a", "p", "i", "/">>,
     <<"/", "e", "x", "a", "m", "p", "l", "e", "s">>,
     <<"/", "e", "x", "a", "m", "p", "l", "e", "s", "/">>,
     <<"/", "e", "x", "a", "m", "p", "l", "e", "s", ".", "h", "t", "m", "l">>,
     <<"/", "b", "u", "l", "k", "-", "u", "p", "l", "o", "a", "d", "s">>,
     <<"/", "b", "u", "l", "k", "-", "u", "p", "l", "o", "a", "d", "s", "/">>,
     <<"/", "e", "x", "a", "m", "p", "l", "e", "s", "/", "b", "u", "l", "k", "-", "u", "p", "l", "o", "a", "d", "s">>,
     <<"/", "e", "x", "a", "m", "p", "l", "e", "s", "/", "b", "u", "l", "k", "-", "u", "p", "l", "o", "a", "d", "s", "/">>,
     <<"/", "r", "e", "f", "e", "r", "e", "n", "c", "e", "s">>,
     <<"/", "r", "e", "f", "e", "r", "e", "n", "c", "e", "s", "/">>,
     <<"/", "r", "e", "f", "e", "r", "e", "n", "c", "e", "s", ".", "h", "t", "m", "l">>,
     <<"/", "d", "o", "c", "s", "/", "r", "e", "f", "e", "r", "e", "n", "c", "e", "s">>,
     <<"/", "d", "o", "c", "s", "/", "r", "e", "f", "e", "r", "e", "n", "c", "e", "s", "/">>,
     <<"/", "g", "l", "o", "s", "s", "a", "r", "y">>,
     <<"/", "g", "l", "o", "s", "s", "a", "r", "y", "/">>,
     <<"/", "g", "l", "o", "s", "s", "a", "r", "y", ".", "h", "t", "m", "l">> >>

\* How a URL of the site can answer page.goto: a rendered page, an HTTP
\* status >= 400, or a page whose content carries an error marker
SiteUrls == {startUrl, UrlA, UrlASlash, UrlQuick, UrlQuickHtml}
Sites ==
  { f \in [SiteUrls -> {"ok", "http", "marker"}] :
      /\ f[startUrl] # "marker"
      /\ f[UrlA] # "http"
      /\ \A u \in {UrlASlash, UrlQuick, UrlQuickHtml} : f[u] # "marker"
      /\ f[UrlQuick] = f[UrlQuickHtml] }

\* The URLs whose calls (newPage, goto, saveFile) can throw in a crawl
Flaky == {UrlA, UrlB, AssetLogo}

\* The resource a URL names: the URL without its fragment
Resource(url) ==
  LET cuts == { i \in 1..Len(url) : url[i] = "#" }
  IN  IF cuts = {} THEN url
      ELSE SubSeq(url, 1, (CHOOSE i \in cuts : \A j \in cuts : i <= j) - 1)

\* response.status() / page.content() of the site for a URL
AnswerOf(url) ==
  IF Resource(url) \in DOMAIN site THEN site[Resource(url)] ELSE "http"

\* page.content(): /a, /a#t and /a/ render the same document
BodyOf(url) ==
  CASE Resource(url) = startUrl -> "home"
    [] Resource(url) \in {UrlA, UrlASlash} -> "about"
    [] Resource(url) = UrlQuick -> "quick"
    [] OTHER -> "quickhtml"

\* The same-domain hrefs of $('a[href]') of a page, resolved (extract.ts:151-163)
LinksOf(url) ==
  CASE Resource(url) = startUrl -> <<UrlA, UrlAFrag, UrlASlash, UrlB>>
    [] Resource(url) \in {UrlA, UrlASlash} -> <<startUrl, UrlASlash>>
    [] OTHER -> <<startUrl>>

\* Those of the navigation selectors (extract.ts:166-178)
NavLinksOf(url) ==
  CASE Resource(url) = startUrl -> <<UrlA>>
    [] OTHER -> <<>>

\* The same-domain asset URLs extractAssets finds in a page (extract.ts:239-324)
AssetsOf(url) ==
  CASE Resource(url) = startUrl -> <<AssetCss, AssetLogo>>
    [] Resource(url) \in {UrlA, UrlASlash} -> <<AssetLogo, AssetGone>>
    [] OTHER -> <<>>

\* response.status() of an asset URL
AssetStatus(url) == IF url = AssetGone THEN 404 ELSE 200

-----------------------------------------------------------------------------
(***************************************************************************)
(* crawlAndSave (extract.ts:30-237)                                         *)
(***************************************************************************)
\* The cap of extract.ts:202 on the new links one page adds to the queue
LinksPerPage == 10

\* url.replace(/^https?:\/\//, '')
StripProtocol(url) ==
  IF StartsWith(url, <<"h", "t", "t", "p", "s", ":", "/", "/">>) THEN Substring(url, 8)
  ELSE IF StartsWith(url, <<"h", "t", "t", "p", ":", "/", "/">>) THEN Substring(url, 7)
  ELSE url

\* The storage key of a page (extract.ts:124-136)
s3Key(currentUrl) ==
  LET k == StripProtocol(currentUrl)
      filename == Substring(k, LastIndexOf(k, Slash))
  IN  IF EndsWith(k, Slash) THEN k \o IndexHtml
      ELSE IF ~Includes(filename, Dot) THEN k \o Html
      ELSE k

\* saveFile(key, body) (README.md:116-133): PutObject replaces the object
saveFile(b, key, body) == { e \in b : e.key # key } \cup {[key |-> key, body |-> body]}

\* A queue of assets that appends every reference, seen before or not.
AddAllKeepingDuplicates(set, xs) == set \o xs

\* Set.add for each element of a sequence, keeping insertion order
RECURSIVE AddAll(_, _)
AddAll(set, xs) ==
  IF xs = <<>> THEN set
  ELSE AddAll(IF Head(xs) \in Range(set) THEN set ELSE Append(set, Head(xs)), Tail(xs))

\* links (extract.ts:148-197): anchors, navigation links, then the probes
linksOf(url) ==
  LinksOf(url) \o NavLinksOf(url)
    \o [i \in 1..Len(commonDocPaths) |-> Origin \o commonDocPaths[i]]

\* newLinks.slice(0, 10) (extract.ts:200-202)
newLinks(url, seen) ==
  LET fresh == SelectSeq(linksOf(url), LAMBDA l : l \notin seen)
  IN  SubSeq(fresh, 1, IF Len(fresh) < LinksPerPage THEN Len(fresh) ELSE LinksPerPage)

\* A page loop that goes on as long as the queue is not empty.
LoopContinuesUnbounded == queue # <<>>

\* A page loop that tests its limit after the page has been saved.
LoopContinuesOneMore == queue # <<>> /\ Len(savedPages) <= maxPages

\* The condition of the while loop (extract.ts:45)
LoopContinues == queue # <<>> /\ Len(savedPages) < maxPages

\* savedS3Key.replace(/[^a-zA-Z0-9._-]/g, '_') (extract.ts:103) on the
\* characters of the model's URLs
Sanitize(key) == [i \in 1..Len(key) |-> IF key[i] \in {"/", "#", ":", "?"} THEN "_" ELSE key[i]]

\* The loop of extract.ts:88-114: some saved page has a file in temp/ whose
\* content hashes like the current page
isDuplicate(body) ==
  \E i \in 1..Len(savedPages) :
    [name |-> Sanitize(s3Key(savedPages[i])), body |-> body] \in tempDir

\* What temp/ can hold when a crawl starts: crawlAndSave never writes there
\* (saveFile writes to the bucket); it is empty, or holds copies of the site's
\* pages left by another tool.
TempDirs ==
  { {},
    { [name |-> Sanitize(s3Key(startUrl)), body |-> "home"],
      [name |-> Sanitize(s3Key(UrlA)), body |-> "about"] } }

DeployIdle ==
  /\ stored = <<>> /\ dpc = "idle" /\ pages = <<>> /\ assets = <<>> /\ idx = 0
  /\ inflight = {} /\ fileMapping = <<>> /\ nextId = 0 /\ uploads = <<>>
  /\ manifest = NoManifest /\ DRY_RUN = FALSE

CrawlInit ==
  /\ DeployIdle
  /\ FunctionsIdle
  /\ ServicesIdle
  /\ cpc = "start"
  /\ maxPages \in 0..MaxPagesBound
  /\ delay \in {0, 1000}
  /\ site \in Sites
  /\ tempDir \in TempDirs
  /\ queue = <<>> /\ visited = {} /\ savedPages = <<>>
  /\ assetQueue = <<>> /\ savedAssets = <<>> /\ browserInstance = "none"
  /\ browserEvents = <<>> /\ fetched = <<>> /\ assetIdx = 0
  /\ faults = 0 /\ bucket = {}
  /\ downloads = <<>> /\ analysis = <<>>

\* A cleanup that closes the browser without looking whether one is held.
cleanupUnguarded ==
  /\ browserEvents' = Append(browserEvents, "close")
  /\ browserInstance' = "none"

\* cleanup (extract.ts:447-452)
cleanup ==
  /\ browserEvents' = IF browserInstance # "none" THEN Append(browserEvents, "close")
                      ELSE browserEvents
  /\ browserInstance' = "none"

\* getBrowser (extract.ts:454-468), when launch(...) resolves
getBrowser ==
  /\ browserEvents' = IF browserInstance = "none" THEN Append(browserEvents, "launch")
                      ELSE browserEvents
  /\ browserInstance' = "open"

\* extract.ts:38: getBrowser() rejects because the browser cannot be launched
CrawlLaunchFails ==
  /\ cpc = "start"
  /\ cpc' = "rejected"
  /\ UNCHANGED <<queue, visited, savedPages, assetQueue, savedAssets, browserInstance,
                 browserEvents, fetched, assetIdx, maxPages, delay, site, faults, bucket,
                 tempDir, analysis, downloads, deployVars, functionVars, serviceVars>>

\* extract.ts:38-43 with getBrowser (extract.ts:454-468)
CrawlStart ==
  /\ cpc = "start"
  /\ getBrowser
  /\ queue' = <<startUrl>>
  /\ cpc' = "loop"
  /\ UNCHANGED <<visited, savedPages, assetQueue, savedAssets, fetched, assetIdx,
                 maxPages, delay, site, faults, bucket, tempDir, analysis, downloads, deployVars, functionVars, serviceVars>>

\* extract.ts:46-48: the dequeued URL was visited before
PageRevisit ==
  /\ cpc = "loop" /\ LoopContinues
  /\ Head(queue) \in visited
  /\ queue' = Tail(queue)
  /\ UNCHANGED <<cpc, visited, savedPages, assetQueue, savedAssets, browserInstance,
                 browserEvents, fetched, assetIdx, maxPages, delay, site, faults, bucket,
                 tempDir, analysis, downloads, deployVars, functionVars, serviceVars>>

\* One iteration of the page loop that fetches (extract.ts:46-212): outcome is
\* how it ended, closes the number of page.close() calls it made, delayed
\* whether it slept before the next iteration, pushed the links it added to the
\* queue (extract.ts:202)
Iteration(outcome, closes, delayed, pushed) ==
  /\ cpc = "loop" /\ LoopContinues
  /\ Head(queue) \notin visited
  /\ visited' = visited \cup {Head(queue)}
  /\ queue' = Tail(queue) \o pushed
  /\ fetched' = Append(fetched, [url |-> Head(queue), outcome |-> outcome,
                                 closes |-> closes, delayed |-> delayed,
                                 pushed |-> pushed])
  /\ UNCHANGED <<cpc, savedAssets, browserInstance, browserEvents, assetIdx,
                 maxPages, delay, site, tempDir, analysis, downloads, deployVars, functionVars, serviceVars>>

\* An iteration that leaves through `continue` or through the catch block
\* before the page is saved
Skipped(outcome, closes, delayed) ==
  /\ Iteration(outcome, closes, delayed, <<>>)
  /\ UNCHANGED <<savedPages, assetQueue, bucket>>

\* extract.ts:54, 209-212: browser.newPage() throws
PageNewPageFails ==
  /\ cpc = "loop" /\ queue # <<>> /\ Head(queue) \in Flaky
  /\ faults < MaxFaults /\ faults' = faults + 1
  /\ Skipped("newPageFailed", 0, FALSE)

\* A page.goto that throws and is not caught: crawlAndSave rejects.
PageGotoFailsRejects ==
  /\ cpc = "loop" /\ LoopContinues
  /\ Head(queue) \in Flaky /\ Head(queue) \notin visited
  /\ faults < MaxFaults /\ faults' = faults + 1
  /\ visited' = visited \cup {Head(queue)}
  /\ queue' = Tail(queue)
  /\ fetched' = Append(fetched, [url |-> Head(queue), outcome |-> "gotoFailed",
                                 closes |-> 1, delayed |-> FALSE, pushed |-> <<>>])
  /\ cpc' = "rejected"
  /\ UNCHANGED <<savedPages, assetQueue, savedAssets, browserInstance, browserEvents,
                 assetIdx, maxPages, delay, site, bucket, tempDir, analysis, downloads,
                 deployVars, functionVars, serviceVars>>

\* extract.ts:57, 204-212: page.goto (or page.content) throws
PageGotoFails ==
  /\ cpc = "loop" /\ queue # <<>> /\ Head(queue) \in Flaky
  /\ faults < MaxFaults /\ faults' = faults + 1
  /\ Skipped("gotoFailed", 1, FALSE)

\* An HTTP error that ends the page loop instead of skipping the page.
PageHttpErrorAborts ==
  /\ cpc = "loop" /\ LoopContinues
  /\ AnswerOf(Head(queue)) = "http" /\ Head(queue) \notin visited
  /\ visited' = visited \cup {Head(queue)}
  /\ queue' = Tail(queue)
  /\ fetched' = Append(fetched, [url |-> Head(queue), outcome |-> "httpError",
                                 closes |-> 2, delayed |-> delay > 0, pushed |-> <<>>])
  /\ cpc' = "assets"
  /\ UNCHANGED <<savedPages, assetQueue, savedAssets, browserInstance, browserEvents,
                 assetIdx, maxPages, delay, site, faults, bucket, tempDir, analysis,
                 downloads, deployVars, functionVars, serviceVars>>

\* extract.ts:60-65, 204-206: no response or status >= 400
PageHttpError ==
  /\ cpc = "loop" /\ queue # <<>> /\ AnswerOf(Head(queue)) = "http"
  /\ Skipped("httpError", 2, delay > 0)
  /\ UNCHANGED faults

\* extract.ts:70-78, 204-206: the content carries an error marker
PageErrorContent ==
  /\ cpc = "loop" /\ queue # <<>> /\ AnswerOf(Head(queue)) = "marker"
  /\ Skipped("errorContent", 2, delay > 0)
  /\ UNCHANGED faults

\* extract.ts:83-121, 204-206: the content hashes like a saved page's file
PageDuplicate ==
  /\ cpc = "loop" /\ queue # <<>> /\ AnswerOf(Head(queue)) = "ok"
  /\ isDuplicate(BodyOf(Head(queue)))
  /\ Skipped("duplicate", 2, delay > 0)
  /\ UNCHANGED faults

\* A saveFile that throws with no finally block to close the page.
PageSaveFailsLeaks ==
  /\ cpc = "loop" /\ queue # <<>> /\ AnswerOf(Head(queue)) = "ok"
  /\ ~isDuplicate(BodyOf(Head(queue)))
  /\ Head(queue) \in Flaky
  /\ faults < MaxFaults /\ faults' = faults + 1
  /\ Skipped("saveFailed", 0, FALSE)

\* extract.ts:138, 204-212: saveFile throws
PageSaveFails ==
  /\ cpc = "loop" /\ queue # <<>> /\ AnswerOf(Head(queue)) = "ok"
  /\ ~isDuplicate(BodyOf(Head(queue)))
  /\ Head(queue) \in Flaky
  /\ faults < MaxFaults /\ faults' = faults + 1
  /\ Skipped("saveFailed", 1, FALSE)

\* extract.ts:123-208: the page is saved, its assets and links are collected
PageSaved ==
  /\ cpc = "loop" /\ queue # <<>> /\ AnswerOf(Head(queue)) = "ok"
  /\ ~isDuplicate(BodyOf(Head(queue)))
  /\ Iteration("saved", 1, delay > 0, newLinks(Head(queue), visited \cup {Head(queue)}))
  /\ bucket' = saveFile(bucket, s3Key(Head(queue)), BodyOf(Head(queue)))
  /\ savedPages' = Append(savedPages, Head(queue))
  /\ assetQueue' = AddAll(assetQueue, AssetsOf(Head(queue)))
  /\ UNCHANGED faults

\* extract.ts:45, 215-216: the page loop ends
PageLoopEnd ==
  /\ cpc = "loop" /\ ~LoopContinues
  /\ cpc' = "assets"
  /\ UNCHANGED <<queue, visited, savedPages, assetQueue, savedAssets, browserInstance,
                 browserEvents, fetched, assetIdx, maxPages, delay, site, faults, bucket,
                 tempDir, analysis, downloads, deployVars, functionVars, serviceVars>>

\* One iteration of the asset loop (extract.ts:217-226) with the downloadAsset
\* call it makes (extract.ts:362-398): outcome is how the call ended, closes
\* the number of page.close() calls it made
AssetStep(outcome, closes) ==
  /\ cpc = "assets" /\ assetIdx < Len(assetQueue)
  /\ assetIdx' = assetIdx + 1
  /\ getBrowser
  /\ downloads' = Append(downloads, [url |-> assetQueue[assetIdx + 1],
                                     outcome |-> outcome, closes |-> closes])
  /\ UNCHANGED <<cpc, queue, visited, savedPages, assetQueue, fetched, maxPages,
                 delay, site, tempDir, analysis, deployVars, functionVars, serviceVars>>

\* downloadAsset returns true (extract.ts:374-393)
AssetSaved ==
  /\ AssetStep("saved", 1)
  /\ AssetStatus(assetQueue[assetIdx + 1]) = 200
  /\ bucket' = saveFile(bucket, StripProtocol(assetQueue[assetIdx + 1]), "bytes")
  /\ savedAssets' = Append(savedAssets, assetQueue[assetIdx + 1])
  /\ UNCHANGED faults

\* downloadAsset returns false on a response that is not 200 (extract.ts:376-379,
\* 391-393)
AssetNon200 ==
  /\ AssetStep("non200", 1)
  /\ AssetStatus(assetQueue[assetIdx + 1]) # 200
  /\ UNCHANGED <<bucket, savedAssets, faults>>

\* browser.newPage() throws in downloadAsset (extract.ts:365, 394-397)
AssetNewPageFails ==
  /\ AssetStep("newPageFailed", 0)
  /\ assetQueue[assetIdx + 1] \in Flaky
  /\ faults < MaxFaults /\ faults' = faults + 1
  /\ UNCHANGED <<bucket, savedAssets>>

\* page.goto or saveFile throws in downloadAsset: the finally block closes the
\* page, the catch block returns false (extract.ts:374, 388, 391-397)
AssetFails ==
  /\ AssetStep("failed", 1)
  /\ assetQueue[assetIdx + 1] \in Flaky
  /\ faults < MaxFaults /\ faults' = faults + 1
  /\ UNCHANGED <<bucket, savedAssets>>

\* extract.ts:228-236 with cleanup (extract.ts:447-452)
CrawlCleanup ==
  /\ cpc = "assets" /\ assetIdx = Len(assetQueue)
  /\ cleanup
  /\ cpc' = "returned"
  /\ UNCHANGED <<queue, visited, savedPages, assetQueue, savedAssets, fetched, assetIdx,
                 maxPages, delay, site, faults, bucket, tempDir, analysis, downloads,
                 deployVars, functionVars, serviceVars>>

\* cleanup() (extract.ts:447-452) called once more after the run has returned
CleanupAgain ==
  /\ cpc = "returned"
  /\ cleanup
  /\ cpc' = "cleaned"
  /\ UNCHANGED <<queue, visited, savedPages, assetQueue, savedAssets, fetched, assetIdx,
                 maxPages, delay, site, faults, bucket, tempDir, analysis, downloads,
                 deployVars, functionVars, serviceVars>>

\* What analyzeSite leaves alone
AnalyzeFrame ==
  UNCHANGED <<queue, visited, savedPages, assetQueue, savedAssets, fetched, assetIdx,
              maxPages, delay, site, bucket, tempDir, downloads, deployVars, functionVars, serviceVars>>

\* analyzeSite (extract.ts:422-423): getBrowser() resolves
AnalyzeStart ==
  /\ cpc = "start"
  /\ getBrowser
  /\ cpc' = "analyzing"
  /\ UNCHANGED <<faults, analysis>>
  /\ AnalyzeFrame

\* extract.ts:424: browser.newPage() throws before the try block is entered
AnalyzeNewPageFails ==
  /\ cpc = "analyzing"
  /\ faults < MaxFaults /\ faults' = faults + 1
  /\ analysis' = <<[outcome |-> "newPageFailed", opened |-> FALSE, closes |-> 0]>>
  /\ cpc' = "rejected"
  /\ UNCHANGED <<browserInstance, browserEvents>>
  /\ AnalyzeFrame

\* extract.ts:427-428, 441-444: page.goto or page.content throws
AnalyzeGotoFails ==
  /\ cpc = "analyzing"
  /\ faults < MaxFaults /\ faults' = faults + 1
  /\ analysis' = <<[outcome |-> "gotoFailed", opened |-> TRUE, closes |-> 1]>>
  /\ cleanup
  /\ cpc' = "rejected"
  /\ AnalyzeFrame

\* extract.ts:426-444: the analysis is returned
AnalyzeDone ==
  /\ cpc = "analyzing"
  /\ analysis' = <<[outcome |-> "analyzed", opened |-> TRUE, closes |-> 1]>>
  /\ cleanup
  /\ cpc' = "analyzed"
  /\ UNCHANGED faults
  /\ AnalyzeFrame

CrawlNext ==
  \/ CrawlLaunchFails
  \/ CrawlStart
  \/ PageRevisit
  \/ PageNewPageFails
  \/ PageGotoFails
  \/ PageHttpError
  \/ PageErrorContent
  \/ PageDuplicate
  \/ PageSaveFails
  \/ PageSaved
  \/ PageLoopEnd
  \/ AssetSaved
  \/ AssetNon200
  \/ AssetNewPageFails
  \/ AssetFails
  \/ CrawlCleanup
  \/ CleanupAgain
  \/ AnalyzeStart
  \/ AnalyzeNewPageFails
  \/ AnalyzeGotoFails
  \/ AnalyzeDone

SpecCrawl == CrawlInit /\ [][CrawlNext]_vars

\* The event loop runs crawlAndSave on: every awaited call settles (page.goto
\* within its timeout of extract.ts:57), so a step that can be taken is taken
SpecCrawlFair == SpecCrawl /\ WF_vars(CrawlNext)

-----------------------------------------------------------------------------
(***************************************************************************)
(* Properties of crawlAndSave                                               *)
(***************************************************************************)
\* C10: a crawl that has entered its page loop returns its result; once the
\* queue is empty or maxPages pages are saved the loop's only step is to end
\* without another fetch; and the result is returned after every queued asset
\* has been tried and cleanup has closed the browser.
C10_PageLoopTerminates ==
  /\ (cpc = "loop") ~> (cpc = "returned")
  /\ [][(cpc = "loop" /\ (queue = <<>> \/ Len(savedPages) >= maxPages))
          => (cpc' = "assets" /\ fetched' = fetched /\ queue' = queue)]_vars
  /\ [](cpc = "returned" =>
          /\ assetIdx = Len(assetQueue)
          /\ browserInstance = "none"
          /\ browserEvents = <<"launch", "close">>)

C10_Witness ==
  /\ cpc = "returned"
  /\ maxPages >= 2
  /\ Len(savedPages) = maxPages
  /\ queue # <<>>
  /\ Len(fetched) > Len(savedPages)
  /\ savedAssets # <<>>

\* The number of pages saved by the first n iterations of the page loop
SavedBy(n) == Cardinality({ j \in 1..n : fetched[j].outcome = "saved" })

\* The visited set after the i-th fetching iteration of the page loop
VisitedAt(i) == { fetched[j].url : j \in 1..i }

\* C11: savedPages never holds more than maxPages pages, and every fetch of
\* the page loop began while fewer than maxPages pages were saved.
C11_AtMostMaxPages ==
  /\ Len(savedPages) <= maxPages
  /\ Len(savedPages) = SavedBy(Len(fetched))
  /\ \A i \in 1..Len(fetched) : SavedBy(i - 1) < maxPages

C11_Witness ==
  /\ cpc = "returned"
  /\ maxPages >= 1 /\ Len(savedPages) = maxPages
  /\ queue # <<>> /\ Head(queue) \notin visited
  /\ fetched[Len(fetched)].outcome = "saved"

\* The iterations of the page loop that called page.goto
Navigated == { i \in 1..Len(fetched) : fetched[i].outcome # "newPageFailed" }

\* C12: the page loop navigates to no page twice, spellings of one URL that
\* differ in the fragment only being the same page.
C12_NoPageRefetched ==
  \A i, j \in Navigated :
    i # j => Resource(fetched[i].url) # Resource(fetched[j].url)

\* C13: no two saved pages have the same rendered content.
C13_NoDuplicateContent ==
  \A i, j \in 1..Len(savedPages) :
    i # j => BodyOf(savedPages[i]) # BodyOf(savedPages[j])

\* C14: an iteration that skips its page as a content duplicate has enqueued
\* the page's links that were not visited.
C14_DuplicateLinksEnqueued ==
  \A i \in 1..Len(fetched) :
    fetched[i].outcome = "duplicate" =>
      fetched[i].pushed = newLinks(fetched[i].url, VisitedAt(i))

\* The outcomes of an iteration whose page answered with an error
ErrorOutcomes == {"httpError", "errorContent"}

\* Every URL that was put into the queue
Enqueued == {startUrl} \cup UNION { Range(fetched[i].pushed) : i \in 1..Len(fetched) }

ThrownOutcomes == {"newPageFailed", "gotoFailed", "saveFailed", "failed"}

\* C16: crawlAndSave does not reject once its page loop has begun; a page or
\* asset whose processing threw is not in savedPages, savedAssets or the blob
\* store; and the run returns only after every queued asset has been tried and
\* the page loop has ended by its own condition.
C16_FailuresContained ==
  /\ cpc = "rejected" => (fetched = <<>> /\ downloads = <<>>)
  /\ \A i \in 1..Len(fetched) :
       fetched[i].outcome \in ThrownOutcomes =>
         /\ fetched[i].url \notin Range(savedPages)
         /\ \A e \in bucket : e.key # s3Key(fetched[i].url)
  /\ \A i \in 1..Len(downloads) :
       downloads[i].outcome \in ThrownOutcomes =>
         /\ downloads[i].url \notin Range(savedAssets)
         /\ \A e \in bucket : e.key # StripProtocol(downloads[i].url)
  /\ cpc = "returned" =>
       /\ [i \in 1..Len(downloads) |-> downloads[i].url] = assetQueue
       /\ ~LoopContinues

C16_Witness ==
  /\ cpc = "returned"
  /\ \E i, j \in 1..Len(fetched) :
       /\ i < j
       /\ fetched[i].outcome \in ThrownOutcomes
       /\ fetched[j].outcome = "saved"
  /\ savedAssets # <<>>

\* C17: every fetch that opened a page context closed it before it ended
\* (a fetch whose browser.newPage() threw opened none), in the page loop, in
\* downloadAsset and in analyzeSite.
C17_ContextsClosed ==
  /\ \A i \in 1..Len(fetched) :
       fetched[i].closes >= (IF fetched[i].outcome = "newPageFailed" THEN 0 ELSE 1)
  /\ \A i \in 1..Len(downloads) :
       downloads[i].closes >= (IF downloads[i].outcome = "newPageFailed" THEN 0 ELSE 1)
  /\ \A i \in 1..Len(analysis) :
       analysis[i].closes >= (IF analysis[i].opened THEN 1 ELSE 0)

C17_Witness ==
  /\ cpc = "returned"
  /\ \E i \in 1..Len(fetched) : fetched[i].outcome = "gotoFailed"
  /\ \E i \in 1..Len(fetched) : fetched[i].outcome = "httpError"
  /\ \E i \in 1..Len(fetched) : fetched[i].outcome = "saved"
  /\ \E i \in 1..Len(downloads) : downloads[i].outcome = "non200"

\* C18: the browser is launched at most once and only when a run first asks
\* for it, it is closed at most once and after the launch, a crawl that has
\* returned has closed it, a further cleanup() changes nothing, and every fetch
\* of the page loop and of the asset loop happens while the browser is open.
C18_BrowserLifecycle ==
  /\ [](browserEvents \in {<<>>, <<"launch">>, <<"launch", "close">>})
  /\ [](browserInstance = "open" <=> browserEvents = <<"launch">>)
  /\ [](cpc = "start" => browserEvents = <<>>)
  /\ [](cpc \in {"returned", "cleaned"} => browserEvents = <<"launch", "close">>)
  /\ [][(fetched' # fetched \/ downloads' # downloads)
          => (browserInstance = "open" /\ browserInstance' = "open")]_vars

C18_Witness ==
  /\ cpc = "cleaned"
  /\ browserEvents = <<"launch", "close">>
  /\ fetched # <<>> /\ downloads # <<>>

\* C19: no asset is downloaded while the page loop can still run, and no
\* asset URL is downloaded twice.
C19_AssetsAfterPagesOnce ==
  /\ downloads # <<>> => (cpc \in {"assets", "returned", "cleaned"} /\ ~LoopContinues)
  /\ cpc \in {"start", "loop"} => (downloads = <<>> /\ savedAssets = <<>>)
  /\ \A i, j \in 1..Len(downloads) : i # j => downloads[i].url # downloads[j].url

C19_Witness ==
  /\ cpc = "returned"
  /\ \E i, j \in 1..Len(savedPages) :
       /\ i # j
       /\ AssetLogo \in Range(AssetsOf(savedPages[i]))
       /\ AssetLogo \in Range(AssetsOf(savedPages[j]))
  /\ AssetLogo \in Range(savedAssets)

\* C20: with delay > 0 every iteration of the page loop that fetched and was
\* followed by another fetch slept before it.
C20_DelayBetweenFetches ==
  delay > 0 => \A i \in 1..(Len(fetched) - 1) : fetched[i].delayed

-----------------------------------------------------------------------------
(***************************************************************************)
(* The pure functions of the pipeline, each applied to one input and then   *)
(* to its own result: replaceUrlsWithTxIds with its helpers normalizeUrl    *)
(* and tryReplaceUrl (deploy.ts:292-429), and the storage key of a page     *)
(* (extract.ts:124-137) followed by getSiteContent (deploy.ts:240-276).     *)
(***************************************************************************)
\* Largest number of entries of a fileMapping handed to replaceUrlsWithTxIds.
MaxEntries == 2

\* Stored paths of a site, as getSiteContent hands them to the passes: a page,
\* a file without extension, a page under docs/, an index page, an image, a
\* file whose name holds a colon, and a file behind a repeated slash
MappedPaths ==
  { PathAbout, <<"/", "a">>, <<"/", "d", "o", "c", "s", "/", "a", ".", "h", "t", "m", "l">>, <<"/", "g", "/", "i", "n", "d", "e", "x", ".", "h", "t", "m", "l">>, <<"/", "i", "/", "l", ".", "p", "n", "g">>, <<"/", "m", "a", "i", "l", "t", "o", ":", "a">>,
    PathIcon }

\* Every fileMapping of at most MaxEntries entries, in every insertion order;
\* the i-th entry holds the i-th identifier the storage network handed out
FileMappings ==
  UNION { { [i \in 1..n |-> [path |-> f[i], id |-> TxId(i)]] :
              f \in { g \in [1..n -> MappedPaths] : \A i, j \in 1..n : g[i] = g[j] => i = j } }
          : n \in 0..MaxEntries }

\* The references of the documents: [kind, doc, text] is a reference written as
\* text in a construct of the given kind of the document stored at path doc.
\* They refer to files of the site, leave the site, or point at the storage
\* network already (the last of them with the identifier a dry run makes of
\* PathAbout, deploy.ts:55).
References ==
  [kind : {"attribute"}, doc : {PathAbout},
   text : MappedPaths \cup
          { <<".", "/", "g">>, <<"/", "g", "/">>, <<"g", "/", "i", "n", "d", "e", "x", ".", "h", "t", "m", "l">>, <<"/", "i", "/", "l", ".", "p", "n", "g", "?", "v", "=", "1", "#", "f">>, <<"a", ".", "h", "t", "m", "l">>, <<"a", ".", "h", "t", "m", "l", "#", "t">>,
            <<" ", "/", "a", ".", "h", "t", "m", "l", " ">>, <<"/", "a", "?", "q">>,
            <<"h", "t", "t", "p", "s", ":", "/", "/", "o", "/", "a", ".", "h", "t", "m", "l">>, <<"h", "t", "t", "p", ":", "/", "/", "o", "/", "a">>, <<"/", "/", "o", "/", "a", ".", "h", "t", "m", "l">>, <<"m", "a", "i", "l", "t", "o", ":", "a">>, <<"t", "e", "l", ":", "1">>,
            <<"j", "a", "v", "a", "s", "c", "r", "i", "p", "t", ":", "a">>, <<"d", "a", "t", "a", ":", "a">>, <<"#", "a">>, <<" ", "m", "a", "i", "l", "t", "o", ":", "a">>, <<"H", "T", "T", "P", "S", ":", "/", "/", "o", "/", "a">>,
            <<"m", "a", "i", "l", "t", "o", ":", "a", "?", "s">>,
            <<"h", "t", "t", "p", "s", ":", "/", "/", "a", "r", "w", "e", "a", "v", "e", ".", "n", "e", "t", "/", "T", "1">>, <<" ", "h", "t", "t", "p", "s", ":", "/", "/", "a", "r", "w", "e", "a", "v", "e", ".", "n", "e", "t", "/", "T", "1">>,
            <<"h", "t", "t", "p", ":", "/", "/", "a", "r", "w", "e", "a", "v", "e", ".", "n", "e", "t", "/", "T", "1", "?", "v">>, <<"h", "t", "t", "p", "s", ":", "/", "/", "a", "r", "w", "e", "a", "v", "e", ".", "n", "e", "t", "/", "f", "a", "k", "e", "_", "L", "2", "E", "u", "a", "H", "R", "t", "b", "A", "=", "=">> }]
  \cup
  [kind : {"cssUrl"}, doc : { <<"/", "c", "/", "s", ".", "c", "s", "s">> },
   text : { <<".", ".", "/", "i", "/", "l", ".", "p", "n", "g">>, <<"/", "i", "/", "l", ".", "p", "n", "g">>, <<"/", "i", "/", "l", ".", "p", "n", "g", "?", "v", "=", "1", "#", "f">>, <<" ", "/", "i", "/", "l", ".", "p", "n", "g">>,
            <<"h", "t", "t", "p", "s", ":", "/", "/", "o", "/", "l", ".", "p", "n", "g">>, <<" ", "h", "t", "t", "p", "s", ":", "/", "/", "o", "/", "l", ".", "p", "n", "g">>, <<"d", "a", "t", "a", ":", "a">>, <<"#", "a">>,
            <<"h", "t", "t", "p", "s", ":", "/", "/", "a", "r", "w", "e", "a", "v", "e", ".", "n", "e", "t", "/", "T", "1">>, <<" ", "h", "t", "t", "p", "s", ":", "/", "/", "a", "r", "w", "e", "a", "v", "e", ".", "n", "e", "t", "/", "f", "a", "k", "e", "_", "L", "2", "E", "u", "a", "H", "R", "t", "b", "A", "=", "=">> }]
  \cup
  [kind : {"srcset"}, doc : {PathAbout},
   text : { <<"/", "i", "/", "l", ".", "p", "n", "g", " ", "1", "x", ",", "/", "a", " ", "2", "x">>, <<"/", "i", "/", "l", ".", "p", "n", "g", "?", "v", "=", "1", " ", "2", "x">>, <<"/", "i", "/", "l", ".", "p", "n", "g">>,
            <<"h", "t", "t", "p", "s", ":", "/", "/", "o", "/", "l", ".", "p", "n", "g", " ", "1", "x">>, <<"/", "/", "o", "/", "l", ".", "p", "n", "g">>,
            <<"h", "t", "t", "p", "s", ":", "/", "/", "a", "r", "w", "e", "a", "v", "e", ".", "n", "e", "t", "/", "T", "1">>, <<"h", "t", "t", "p", ":", "/", "/", "a", "r", "w", "e", "a", "v", "e", ".", "n", "e", "t", "/", "T", "1", "?", "v", " ", "2", "x">>,
            <<"h", "t", "t", "p", "s", ":", "/", "/", "a", "r", "w", "e", "a", "v", "e", ".", "n", "e", "t", "/", "f", "a", "k", "e", "_", "L", "2", "E", "u", "a", "H", "R", "t", "b", "A", "=", "=">>,
            <<"h", "t", "t", "p", "s", ":", "/", "/", "a", "r", "w", "e", "a", "v", "e", ".", "n", "e", "t", "/", "f", "a", "k", "e", "_", "L", "2", "E", "u", "a", "H", "R", "t", "b", "A", "=", "=", " ", "2", "x">> }]

\* URLs of pages the crawl saves: those of the crawled site, the origin written
\* without its final slash, a script page, a directory and a URL with a query
PageUrls ==
  { startUrl, Origin, UrlA, UrlASlash, UrlAFrag, UrlQuickHtml, Origin \o <<"/", "p", ".", "p", "h", "p">>,
    Origin \o <<"/", "g", "/">>, Origin \o <<"/", "a", "?", "q", "=", "1">> }

\* One call: the rewrite of a reference under a fileMapping, the
\* normalization of a text, or the saving and listing of a page
FunctionsInit ==
  /\ ServicesIdle
  /\ DeployIdle
  /\ CrawlIdle
  /\ fpc = "input"
  /\ finput \in
       [op : {"rewrite"}, ref : References, fm : FileMappings]
       \cup [op : {"normalize"},
             ref : [kind : {"path"}, doc : {<<>>}, text : { r.text : r \in References }],
             fm : {<<>>}]
       \cup [op : {"store"}, ref : [kind : {"page"}, doc : {<<>>}, text : PageUrls],
             fm : {<<>>}]
  /\ fout1 = <<>>
  /\ fout2 = <<>>

\* One step of a call: the result goes to fout1 first and to fout2 after it
Applied(op, from, to, out1, out2) ==
  /\ fpc = from
  /\ finput.op = op
  /\ fpc' = to
  /\ fout1' = out1
  /\ fout2' = out2
  /\ UNCHANGED <<finput, deployVars, crawlVars, serviceVars>>

\* replaceUrlsWithTxIds(content, fileMapping) (deploy.ts:86, 150)
ApplyRewrite ==
  Applied("rewrite", "input", "once", replaceReference(finput.ref, finput.fm), fout2)

\* replaceUrlsWithTxIds on the text it returned, with the same fileMapping
ApplyRewriteAgain ==
  Applied("rewrite", "once", "twice", fout1,
          replaceReference([finput.ref EXCEPT !.text = fout1], finput.fm))

\* normalizeUrl(url) (deploy.ts:296-317)
ApplyNormalize ==
  Applied("normalize", "input", "once", normalizeUrl(finput.ref.text), fout2)

\* normalizeUrl on the text it returned
ApplyNormalizeAgain ==
  Applied("normalize", "once", "twice", fout1, normalizeUrl(fout1))

\* listFiles(prefix) (README.md:166): the keys of the blob store under prefix
RECURSIVE listFiles(_, _)
listFiles(keys, prefix) ==
  IF keys = <<>> THEN <<>>
  ELSE IF StartsWith(Head(keys), prefix)
         THEN <<Head(keys)>> \o listFiles(Tail(keys), prefix)
  ELSE listFiles(Tail(keys), prefix)

\* crawlAndSave saves the page of a URL under its storage key (extract.ts:124-137)
StorePage ==
  Applied("store", "input", "once", s3Key(finput.ref.text), fout2)

\* getSiteContent(hostname) on the blob store that holds the saved page
\* (deploy.ts:240-276)
ListPage ==
  Applied("store", "once", "twice", fout1,
          getSiteContent(listFiles(<<fout1>>, hostname \o Slash)))

FunctionsNext ==
  \/ ApplyRewrite
  \/ ApplyRewriteAgain
  \/ ApplyNormalize
  \/ ApplyNormalizeAgain
  \/ StorePage
  \/ ListPage

SpecFunctions == FunctionsInit /\ [][FunctionsNext]_vars

-----------------------------------------------------------------------------
(***************************************************************************)
(* Properties of the rewriting (SpecFunctions).                             *)
(***************************************************************************)
\* The reference of the call is one URL of the storage network
C21_PointsAtArweave ==
  /\ \/ StartsWith(Trim(finput.ref.text), HttpsArweave)
     \/ StartsWith(Trim(finput.ref.text), <<"h", "t", "t", "p", ":", "/", "/", "a", "r", "w", "e", "a", "v", "e", ".", "n", "e", "t", "/">>)
  /\ ~Includes(finput.ref.text, <<",">>)

\* The reference of the call is a link of an earlier dry run, written in a
\* srcset, whose decoded path has an entry in the map; the identifier of that
\* entry, <<>> otherwise
C21_DryRunTx ==
  LET text == Trim(finput.ref.text)
      url  == IF Includes(text, <<" ">>) THEN SubSeq(text, 1, IndexOf(text, <<" ">>) - 1)
              ELSE text
  IN  IF finput.ref.kind = "srcset" THEN realTx(url, finput.fm) ELSE <<>>

C22_ExternalUntouched ==
  /\ finput.op = "rewrite" /\ fpc # "input"
  /\ \E p \in { <<"h", "t", "t", "p", ":", "/", "/", "o", "/">>, <<"h", "t", "t", "p", "s", ":", "/", "/", "o", "/">>, <<"/", "/">>, <<"m", "a", "i", "l", "t", "o", ":">>, <<"t", "e", "l", ":">>,
                <<"j", "a", "v", "a", "s", "c", "r", "i", "p", "t", ":">>, <<"d", "a", "t", "a", ":">>, <<"#">> } :
       StartsWith(Trim(finput.ref.text), p)
  => fout1 = finput.ref.text

\* C23: normalizeUrl(normalizeUrl(x)) = normalizeUrl(x) for every path string x.
C23_NormalizeIdempotent ==
  finput.op = "normalize" /\ fpc = "twice" => fout2 = fout1

\* C24: a reference written exactly as a stored path p of the map is rewritten
\* to the storage URL of p's identifier.
C24_StoredPathResolves ==
  /\ finput.op = "rewrite" /\ fpc # "input"
  /\ finput.ref.kind = "attribute"
  /\ finput.ref.text \in Keys(finput.fm)
  => fout1 = HttpsArweave \o EntryOf(finput.fm, finput.ref.text).id

\* C25: when the map holds the index page /g/index.html, the references ./g,
\* /g/ and g/index.html are all rewritten to the storage URL of its identifier.
C25_IndexPageVariants ==
  /\ finput.op = "rewrite" /\ fpc # "input"
  /\ finput.ref.kind = "attribute"
  /\ finput.ref.text \in { <<".", "/", "g">>, <<"/", "g", "/">>, <<"g", "/", "i", "n", "d", "e", "x", ".", "h", "t", "m", "l">> }
  /\ <<"/", "g", "/", "i", "n", "d", "e", "x", ".", "h", "t", "m", "l">> \in Keys(finput.fm)
  => fout1 = HttpsArweave \o EntryOf(finput.fm, <<"/", "g", "/", "i", "n", "d", "e", "x", ".", "h", "t", "m", "l">>).id

\* C26: when a reference could match more than one stored path, it is rewritten
\* to the stored path that equals it exactly, otherwise to the longer stored
\* path, and the result is the same for every insertion order of the map.
C26_ExactThenLongest ==
  LET fm    == finput.fm
      text  == finput.ref.text
      cands == { p \in Keys(fm) : normalizeUrl(p) = normalizeUrl(text) }
      best  == IF text \in cands THEN text
               ELSE CHOOSE p \in cands : \A q \in cands : Len(q) <= Len(p)
      orders == { f \in [1..Len(fm) -> 1..Len(fm)] :
                    \A i, j \in 1..Len(fm) : f[i] = f[j] => i = j }
  IN  /\ finput.op = "rewrite" /\ fpc # "input"
      /\ finput.ref.kind = "attribute"
      /\ Cardinality(cands) > 1
      => /\ fout1 = HttpsArweave \o EntryOf(fm, best).id
         /\ \A f \in orders :
              replaceReference(finput.ref, [i \in 1..Len(fm) |-> fm[f[i]]]) = fout1

\* C27: the reference ../i/l.png of the stylesheet /c/s.css is rewritten to the
\* storage URL of the identifier the map holds for /i/l.png.
C27_StylesheetRelative ==
  /\ finput.op = "rewrite" /\ fpc # "input"
  /\ finput.ref.kind = "cssUrl"
  /\ finput.ref.doc = <<"/", "c", "/", "s", ".", "c", "s", "s">>
  /\ finput.ref.text = <<".", ".", "/", "i", "/", "l", ".", "p", "n", "g">>
  /\ <<"/", "i", "/", "l", ".", "p", "n", "g">> \in Keys(finput.fm)
  => fout1 = HttpsArweave \o EntryOf(finput.fm, <<"/", "i", "/", "l", ".", "p", "n", "g">>).id

\* C28: a reference with a query string or fragment is rewritten exactly when
\* the part before the first '?' or '#' is, to the storage URL of that part
\* followed by the unchanged suffix.
C28_SuffixReattached ==
  LET clean  == Trim(finput.ref.text)
      cuts   == { i \in 1..Len(clean) : clean[i] \in {"?", "#"} }
      cut    == CHOOSE i \in cuts : \A j \in cuts : i <= j
      base   == SubSeq(clean, 1, cut - 1)
      suffix == SubSeq(clean, cut, Len(clean))
      plain  == attributePattern(base, finput.fm)
  IN  /\ finput.op = "rewrite" /\ fpc # "input"
      /\ finput.ref.kind = "attribute"
      /\ cuts # {}
      /\ ~Includes(clean, ArweaveNet)
      => IF plain # base THEN fout1 = plain \o suffix ELSE fout1 = finput.ref.text

\* The image with a query and a fragment has been rewritten
C28_Witness ==
  /\ finput.op = "rewrite" /\ fpc # "input"
  /\ finput.ref.kind = "attribute"
  /\ finput.ref.text = <<"/", "i", "/", "l", ".", "p", "n", "g", "?", "v", "=", "1", "#", "f">>
  /\ fout1 = HttpsArweave \o TxId(1) \o <<"?", "v", "=", "1", "#", "f">>

\* C30: a page saved by crawlAndSave is stored under the key of the scheme
\* (the root URL under h/index.html, a path without extension with .html
\* appended) and getSiteContent(h) lists it as a page and not as an asset.
C30_SavedPagesArePages ==
  LET path == RelativePath(fout1)
  IN  finput.op = "store" /\ fpc = "twice" =>
        /\ finput.ref.text = startUrl => fout1 = KeyIndex
        /\ finput.ref.text = UrlA => fout1 = KeyAbout
        /\ \E i \in 1..Len(fout2.pages) : fout2.pages[i].path = path
        /\ \A i \in 1..Len(fout2.assets) : fout2.assets[i].path # path

(***************************************************************************)
(* Properties of the uploads of deployWithTurbo (Spec).                     *)
(***************************************************************************)
\* C29: when deployWithTurbo returns, every upload of a file that failed was
\* followed by another attempt to upload that file in the same pass.
C29_FailedUploadRetried ==
  dpc = "done" =>
    \A i \in 1..Len(uploads) :
      ~uploads[i].ok /\ uploads[i].pass # "manifest" =>
        \E j \in (i + 1)..Len(uploads) :
          uploads[j].pass = uploads[i].pass /\ uploads[j].path = uploads[i].path

-----------------------------------------------------------------------------
(***************************************************************************)
(* Overlapping operations on the module-level browser (extract.ts:28,       *)
(* 447-468).  Two requests of the server run crawlAndSave or analyzeSite in *)
(* one process; a step is the code between two awaits.                      *)
(***************************************************************************)
\* Largest number of operations that overlap.
MaxOperations == 2

\* The fetches one operation makes: crawlAndSave one page and one asset (each
\* asset download calls getBrowser again, extract.ts:364), analyzeSite one page
FetchesOf(kind) == IF kind = "crawlAndSave" THEN 2 ELSE 1

ConcurrentInit ==
  /\ DeployIdle /\ CrawlIdle /\ FunctionsIdle /\ RetrievalIdle /\ FundingIdle
  /\ \E n \in 1..MaxOperations :
       ops \in [1..n -> [kind : {"crawlAndSave", "analyzeSite"}, pc : {"getBrowser"},
                         browser : {0}, fetches : {0}, threw : {FALSE}]]
  /\ sharedBrowser = 0
  /\ browsers = <<>>

\* What a step of an operation leaves alone
ConcurrentFrame == UNCHANGED <<deployVars, crawlVars, functionVars, retrievalVars, fundingVars>>

\* getBrowser (extract.ts:454-455, 467): the test of browserInstance.  With an
\* instance the call returns it; without one it goes on to the awaits of
\* chromium.executablePath() and launch(...)
TestInstance(o) ==
  /\ ops[o].pc = "getBrowser"
  /\ ops' = IF sharedBrowser # 0
              THEN [ops EXCEPT ![o].pc = "holding", ![o].browser = sharedBrowser]
              ELSE [ops EXCEPT ![o].pc = "launching"]
  /\ UNCHANGED <<sharedBrowser, browsers>>
  /\ ConcurrentFrame

\* getBrowser (extract.ts:460-467): launch(...) resolves, the new browser is
\* assigned to browserInstance and returned
Launched(o) ==
  /\ ops[o].pc = "launching"
  /\ browsers' = Append(browsers, "open")
  /\ sharedBrowser' = Len(browsers) + 1
  /\ ops' = [ops EXCEPT ![o].pc = "holding", ![o].browser = Len(browsers) + 1]
  /\ ConcurrentFrame

\* browser.newPage() on the browser the operation holds (extract.ts:54, 365,
\* 423) resolves: the browser is open
NewPage(o) ==
  /\ ops[o].pc = "holding"
  /\ browsers[ops[o].browser] = "open"
  /\ ops' = [ops EXCEPT ![o].pc = "page"]
  /\ UNCHANGED <<sharedBrowser, browsers>>
  /\ ConcurrentFrame

\* Where an operation goes on after a fetch: crawlAndSave to the getBrowser of
\* its asset download, then to cleanup (extract.ts:217-228); analyzeSite to
\* cleanup (extract.ts:441-444)
AfterFetch(op) ==
  IF op.fetches + 1 < FetchesOf(op.kind) THEN "getBrowser" ELSE "cleanup"

\* browser.newPage() throws because the browser the operation holds has been
\* closed.  The page loop and downloadAsset catch it (extract.ts:209-212,
\* 394-397); analyzeSite calls newPage before its try block and rejects
\* without cleanup (extract.ts:423-424)
NewPageThrows(o) ==
  /\ ops[o].pc = "holding"
  /\ browsers[ops[o].browser] = "closed"
  /\ ops' = [ops EXCEPT ![o].threw = TRUE,
                        ![o].fetches = @ + 1,
                        ![o].pc = IF ops[o].kind = "analyzeSite" THEN "rejected"
                                  ELSE AfterFetch(ops[o])]
  /\ UNCHANGED <<sharedBrowser, browsers>>
  /\ ConcurrentFrame

\* The fetch ends and the page is closed (extract.ts:204-206, 391-393, 441-442)
PageClosed(o) ==
  /\ ops[o].pc = "page"
  /\ ops' = [ops EXCEPT ![o].fetches = @ + 1, ![o].pc = AfterFetch(ops[o])]
  /\ UNCHANGED <<sharedBrowser, browsers>>
  /\ ConcurrentFrame

\* cleanup (extract.ts:447-449): browserInstance.close() is called on the
\* instance the module holds at this moment
CleanupCloses(o) ==
  /\ ops[o].pc = "cleanup"
  /\ browsers' = IF sharedBrowser # 0 THEN [browsers EXCEPT ![sharedBrowser] = "closed"]
                 ELSE browsers
  /\ ops' = [ops EXCEPT ![o].pc = IF sharedBrowser # 0 THEN "closing" ELSE "done"]
  /\ UNCHANGED sharedBrowser
  /\ ConcurrentFrame

\* cleanup (extract.ts:450): after the await, browserInstance = null
CleanupNulls(o) ==
  /\ ops[o].pc = "closing"
  /\ sharedBrowser' = 0
  /\ ops' = [ops EXCEPT ![o].pc = "done"]
  /\ UNCHANGED browsers
  /\ ConcurrentFrame

ConcurrentNext ==
  \/ \E o \in DOMAIN ops : TestInstance(o)
  \/ \E o \in DOMAIN ops : Launched(o)
  \/ \E o \in DOMAIN ops : NewPage(o)
  \/ \E o \in DOMAIN ops : NewPageThrows(o)
  \/ \E o \in DOMAIN ops : PageClosed(o)
  \/ \E o \in DOMAIN ops : CleanupCloses(o)
  \/ \E o \in DOMAIN ops : CleanupNulls(o)

SpecConcurrent == ConcurrentInit /\ [][ConcurrentNext]_vars

\* The operations that are between getBrowser's return and the end of the
\* fetch they asked the browser for
C31_Using == { o \in DOMAIN ops : ops[o].pc \in {"holding", "page"} }

\* C31: while operations overlap, the browser an operation uses has not been
\* closed by another one, and at most one browser is launched for them: no two
\* launches run at once and no second browser is open.
C31_SharedBrowserSafe ==
  /\ \A o \in C31_Using : browsers[ops[o].browser] = "open"
  /\ Cardinality({ o \in DOMAIN ops : ops[o].pc = "launching" }) <= 1
  /\ Cardinality({ b \in DOMAIN browsers : browsers[b] = "open" }) <= 1

-----------------------------------------------------------------------------
(***************************************************************************)
(* deployWithTurbo in a build with DRY_RUN = true (deploy.ts:12-19).        *)
(***************************************************************************)
\* Buffer.from(s).toString('base64') (deploy.ts:55) for a string of printable
\* ASCII characters
Base64Encode(s) ==
  LET byte(i)    == IF i > Len(s) THEN 0
                    ELSE (CHOOSE n \in 1..Len(Ascii) : Ascii[n] = s[i]) + 31
      sextet(j)  == LET a   == (6 * j) \div 8
                        off == (6 * j) % 8
                    IN  ((byte(a + 1) * 256 + byte(a + 2)) \div 2^(10 - off)) % 64
      digits     == [j \in 1..((Len(s) * 8 + 5) \div 6) |-> Base64Alphabet[sextet(j - 1) + 1]]
      padding(n) == [k \in 1..((4 - (n % 4)) % 4) |-> "="]
  IN  digits \o padding((Len(s) * 8 + 5) \div 6)

\* `fake_${Buffer.from(path).toString('base64').slice(0, 32)}` (deploy.ts:55,
\* 91, 154)
fakeTxId(path) ==
  LET slice(t) == SubSeq(t, 1, IF Len(t) < 32 THEN Len(t) ELSE 32)
  IN  <<"f", "a", "k", "e", "_">> \o slice(Base64Encode(path))

DryRunInit ==
  /\ stored \in StoredSites
  /\ dpc = "start"
  /\ pages = <<>> /\ assets = <<>> /\ idx = 0
  /\ inflight = {} /\ fileMapping = <<>> /\ nextId = 0
  /\ uploads = <<>> /\ manifest = NoManifest
  /\ DRY_RUN = TRUE
  /\ CrawlIdle /\ FunctionsIdle /\ ConcurrentIdle /\ RetrievalIdle /\ FundingIdle

\* One iteration of a loop in which the DRY_RUN branch stands for the upload:
\* the generated id is recorded under the path and nothing is awaited
\* (deploy.ts:53-55, 70)
DryRunEntry(pass, entries) ==
  /\ DRY_RUN
  /\ dpc = pass /\ Awaited
  /\ idx < Len(entries)
  /\ idx' = idx + 1
  /\ fileMapping' = MapPut(fileMapping, entries[idx + 1].path, fakeTxId(entries[idx + 1].path))
  /\ UNCHANGED <<DRY_RUN, stored, dpc, pages, assets, inflight, nextId, uploads, manifest,
                 crawlVars, functionVars, serviceVars>>

\* Pass 1 with DRY_RUN (deploy.ts:45-55, 70)
Pass1DryRun ==
  /\ idx < Len(assets) /\ ~IsCss(assets[idx + 1].path)
  /\ DryRunEntry("pass1", assets)

\* Pass 2 with DRY_RUN (deploy.ts:80-91, 106); the rewritten stylesheet is
\* computed and dropped
Pass2DryRun ==
  /\ idx < Len(assets) /\ IsCss(assets[idx + 1].path)
  /\ DryRunEntry("pass2", assets)

\* Pass 3b with DRY_RUN (deploy.ts:147-154, 169)
Pass3bDryRun == DryRunEntry("pass3b", pages)

\* deploy.ts:184-187, 202-215 with DRY_RUN: the manifest is built, its id is
\* generated and the result is returned
ManifestDryRun ==
  /\ DRY_RUN
  /\ dpc = "manifest" /\ Awaited
  /\ manifest = NoManifest
  /\ manifest' = createArweaveManifest(fileMapping)
  /\ dpc' = "done"
  /\ UNCHANGED <<DRY_RUN, stored, pages, assets, idx, inflight, fileMapping, nextId, uploads,
                 crawlVars, functionVars, serviceVars>>

\* deployWithTurbo of a build with DRY_RUN = true.  Pass 3a (deploy.ts:119-139)
\* has no DRY_RUN branch: its steps are those of the uploading build
DryRunNext ==
  \/ DeployNoWallet
  \/ DeployStart
  \/ Pass1Skip
  \/ Pass1DryRun
  \/ Pass1End
  \/ Pass2Skip
  \/ Pass2DryRun
  \/ Pass2End
  \/ Pass3aUpload
  \/ Pass3aEnd
  \/ Pass3bDryRun
  \/ Pass3bEnd
  \/ UploadSucceeds
  \/ UploadFails
  \/ ManifestDryRun

SpecDryRun == DryRunInit /\ [][DryRunNext]_vars

\* C32: with DRY_RUN enabled no turbo.upload call is made, in no pass and not
\* for the manifest, and every identifier of the returned fileMapping is the
\* generated id of its path.
C32_DryRunUploadsNothing ==
  DRY_RUN =>
    /\ inflight = {}
    /\ uploads = <<>>
    /\ dpc = "done" => \A i \in 1..Len(fileMapping) :
                         fileMapping[i].id = fakeTxId(fileMapping[i].path)

-----------------------------------------------------------------------------
(***************************************************************************)
(* getMultipleFiles (README.md:185-203, the text of storage.ts)             *)
(***************************************************************************)
\* Largest number of keys of one bulk retrieval.
MaxKeys == 3

\* The bytes the blob store holds under a key; different keys hold different
\* bytes, so that a content filed under another key shows
ObjectBody(key) == <<"b", "y", "t", "e", "s", " ", "o", "f", " ">> \o key

\* results.set(key, buffer): Map.set replaces the value of a key it holds and
\* appends a new key
MapSet(m, k, v) ==
  IF \E i \in 1..Len(m) : m[i].key = k
    THEN [i \in 1..Len(m) |-> IF m[i].key = k THEN [key |-> k, content |-> v] ELSE m[i]]
    ELSE Append(m, [key |-> k, content |-> v])

\* The calls: every list of at most MaxKeys keys, a key listed twice included
RetrievalInit ==
  /\ DeployIdle /\ CrawlIdle /\ FunctionsIdle /\ ConcurrentIdle /\ FundingIdle
  /\ bulkKeys \in UNION { [1..n -> {KeyIndex, KeySite, KeyLogo}] : n \in 0..MaxKeys }
  /\ retrievals = <<>>
  /\ results = <<>>
  /\ bulk = "called"

RetrievalFrame == UNCHANGED <<deployVars, crawlVars, functionVars, concurrentVars, fundingVars>>

\* README.md:188-198: keys.map starts the retrieval of every key
BulkStart ==
  /\ bulk = "called"
  /\ retrievals' = [i \in 1..Len(bulkKeys) |-> "pending"]
  /\ bulk' = "awaiting"
  /\ UNCHANGED <<bulkKeys, results>>
  /\ RetrievalFrame

\* README.md:190-192: getFile(key) resolves and the buffer is filed under key
RetrievalSucceeds(i) ==
  /\ bulk = "awaiting" /\ retrievals[i] = "pending"
  /\ retrievals' = [retrievals EXCEPT ![i] = "retrieved"]
  /\ results' = MapSet(results, bulkKeys[i], ObjectBody(bulkKeys[i]))
  /\ UNCHANGED <<bulkKeys, bulk>>
  /\ RetrievalFrame

\* A failed retrieval that is not caught: Promise.all rejects.
RetrievalFailsUncaught(i) ==
  /\ bulk = "awaiting" /\ retrievals[i] = "pending"
  /\ retrievals' = [retrievals EXCEPT ![i] = "failed"]
  /\ bulk' = "rejected"
  /\ UNCHANGED <<bulkKeys, results>>
  /\ RetrievalFrame

\* README.md:193-196: getFile(key) rejects, the catch block logs
RetrievalFails(i) ==
  /\ bulk = "awaiting" /\ retrievals[i] = "pending"
  /\ retrievals' = [retrievals EXCEPT ![i] = "failed"]
  /\ UNCHANGED <<bulkKeys, results, bulk>>
  /\ RetrievalFrame

\* README.md:199-202: every promise has settled, Promise.all resolves and
\* results is returned
BulkResolves ==
  /\ bulk = "awaiting"
  /\ \A i \in 1..Len(bulkKeys) : retrievals[i] # "pending"
  /\ bulk' = "resolved"
  /\ UNCHANGED <<bulkKeys, retrievals, results>>
  /\ RetrievalFrame

RetrievalNext ==
  \/ BulkStart
  \/ \E i \in 1..Len(bulkKeys) : RetrievalSucceeds(i)
  \/ \E i \in 1..Len(bulkKeys) : RetrievalFails(i)
  \/ BulkResolves

SpecRetrieval == RetrievalInit /\ [][RetrievalNext]_vars

\* C33: getMultipleFiles never rejects, and the map it resolves with holds
\* exactly the keys whose retrieval succeeded, each once and with the bytes
\* stored under that key, in whatever order the retrievals completed.
C33_BulkNeverRejects ==
  /\ bulk # "rejected"
  /\ bulk = "resolved" =>
       /\ { results[i].key : i \in 1..Len(results) }
            = { bulkKeys[i] : i \in { j \in 1..Len(bulkKeys) : retrievals[j] = "retrieved" } }
       /\ \A i, j \in 1..Len(results) : results[i].key = results[j].key => i = j
       /\ \A i \in 1..Len(results) : results[i].content = <<"b", "y", "t", "e", "s", " ", "o", "f", " ">> \o results[i].key

\* A bulk retrieval has resolved although one retrieval failed, and two others
\* completed in the opposite order of their keys
C33_Witness ==
  /\ bulk = "resolved"
  /\ \E i \in 1..Len(bulkKeys) : retrievals[i] = "failed"
  /\ Len(results) = 2
  /\ \E i, j \in 1..Len(bulkKeys) : i < j /\ results[1].key = bulkKeys[j] /\ results[2].key = bulkKeys[i]
                                  /\ bulkKeys[i] # bulkKeys[j]

-----------------------------------------------------------------------------
(***************************************************************************)
(* Properties of crawlAndSave: page contexts and storage keys               *)
(***************************************************************************)
\* C34: every iteration of the page loop that opened a page context called
\* close() on it exactly once, however the iteration ended.
C34_ClosedExactlyOnce ==
  \A i \in 1..Len(fetched) :
    fetched[i].outcome # "newPageFailed" => fetched[i].closes = 1

\* C35: no two pages of savedPages have the same storage key, and the blob
\* store holds every saved page's content under the page's key.
C35_DistinctStorageKeys ==
  /\ \A i, j \in 1..Len(savedPages) :
       i # j => s3Key(savedPages[i]) # s3Key(savedPages[j])
  /\ \A i \in 1..Len(savedPages) :
       [key |-> s3Key(savedPages[i]), body |-> BodyOf(savedPages[i])] \in bucket

-----------------------------------------------------------------------------
(***************************************************************************)
(* deployWithTurbo on a host whose stored files include manifest.json       *)
(***************************************************************************)
\* The key the crawler writes for the URL https://h/manifest.json, whether it
\* met it as an asset (extract.ts:385) or as a link (extract.ts:124-136)
KeyManifestJson == <<"h", "/", "m", "a", "n", "i", "f", "e", "s", "t", ".", "j", "s", "o", "n">>

\* Every blob-store content of at most MaxFiles files that holds manifest.json
StoredSitesWithManifest ==
  { s \in UNION { [1..n -> {KeyIndex, KeySite, KeyLogo, KeyManifestJson}] : n \in 1..MaxFiles } :
      /\ \A i, j \in 1..Len(s) : s[i] = s[j] => i = j
      /\ \E i \in 1..Len(s) : s[i] = KeyManifestJson }

ManifestFileInit ==
  /\ stored \in StoredSitesWithManifest
  /\ dpc = "start"
  /\ pages = <<>> /\ assets = <<>> /\ idx = 0
  /\ inflight = {} /\ fileMapping = <<>> /\ nextId = 0
  /\ uploads = <<>> /\ manifest = NoManifest
  /\ DRY_RUN = FALSE
  /\ CrawlIdle /\ FunctionsIdle /\ ConcurrentIdle /\ RetrievalIdle /\ FundingIdle

SpecManifestFile == ManifestFileInit /\ [][Next]_vars

\* C36: a stored file whose key ends with /manifest.json is not uploaded by
\* deployWithTurbo, in no pass, and the published manifest has no route for it.
C36_ManifestFileNotPublished ==
  (\E i \in 1..Len(stored) : EndsWith(stored[i], <<"/", "m", "a", "n", "i", "f", "e", "s", "t", ".", "j", "s", "o", "n">>)) =>
    /\ \A u \in inflight : u.path # <<"/", "m", "a", "n", "i", "f", "e", "s", "t", ".", "j", "s", "o", "n">>
    /\ \A i \in 1..Len(uploads) : uploads[i].path # <<"/", "m", "a", "n", "i", "f", "e", "s", "t", ".", "j", "s", "o", "n">>
    /\ manifest # NoManifest =>
         \A i \in 1..Len(manifest.paths) : manifest.paths[i].path # <<"m", "a", "n", "i", "f", "e", "s", "t", ".", "j", "s", "o", "n">>

-----------------------------------------------------------------------------
(***************************************************************************)
(* fundBundlerIfNeeded (arweave.ts:127-198).  Amounts are whole numbers of  *)
(* one unit; the estimated cost is an even number of units, so that 1.5     *)
(* times the cost is a whole number too.                                    *)
(***************************************************************************)
\* Largest balance and largest estimated cost.
MaxAmount == 6

\* A required balance without the buffer of 50%.
requiredTurboBalanceNoBuffer(cost) == cost

\* const requiredTurboBalance = estimatedCostAR * 1.5 (arweave.ts:143)
requiredTurboBalance(cost) == (cost * 3) \div 2

\* const fundingNeeded = requiredTurboBalance - turboBalance.ar (arweave.ts:151)
fundingNeeded == requiredTurboBalance(estimatedCostAR) - turboBalance

FundingInit ==
  /\ DeployIdle /\ CrawlIdle /\ FunctionsIdle /\ ConcurrentIdle /\ RetrievalIdle
  /\ fundpc = "called"
  /\ estimatedCostAR \in { c \in 0..MaxAmount : c % 2 = 0 }
  /\ arweaveBalance \in 0..MaxAmount
  /\ turboBalance \in 0..MaxAmount
  /\ newTurboBalance = 0
  /\ fundingTxs = <<>>
  /\ fundResult = [funded |-> FALSE, fundingTxId |-> "none", error |-> "none"]

\* A step of fundBundlerIfNeeded that goes to position pc, or returns result
FundingStep(from, to, result) ==
  /\ fundpc = from
  /\ fundpc' = to
  /\ fundResult' = result
  /\ UNCHANGED <<estimatedCostAR, arweaveBalance, turboBalance, deployVars, crawlVars, functionVars, concurrentVars, retrievalVars>>

\* The value returned with funded: false
NotFunded(error) == [funded |-> FALSE, fundingTxId |-> "none", error |-> error]

\* arweave.ts:135: getWalletBalance resolves
WalletBalanceRead ==
  /\ FundingStep("called", "walletRead", fundResult)
  /\ UNCHANGED <<newTurboBalance, fundingTxs>>

\* arweave.ts:135, 190-196: getWalletBalance rejects and the catch block returns
WalletBalanceThrows ==
  /\ FundingStep("called", "returned", NotFunded("caught"))
  /\ UNCHANGED <<newTurboBalance, fundingTxs>>

\* arweave.ts:139, 190-196: getTurboBalance rejects and the catch block returns
TurboBalanceThrows ==
  /\ FundingStep("walletRead", "returned", NotFunded("caught"))
  /\ UNCHANGED <<newTurboBalance, fundingTxs>>

\* arweave.ts:139-148: the Turbo balance covers the required balance
TurboSufficient ==
  /\ turboBalance >= requiredTurboBalance(estimatedCostAR)
  /\ FundingStep("walletRead", "returned",
                 [funded |-> TRUE, fundingTxId |-> "none", error |-> "none"])
  /\ UNCHANGED <<newTurboBalance, fundingTxs>>

\* arweave.ts:150-160: the main wallet does not cover the funding needed
WalletInsufficient ==
  /\ turboBalance < requiredTurboBalance(estimatedCostAR)
  /\ arweaveBalance < fundingNeeded
  /\ FundingStep("walletRead", "returned", NotFunded("insufficient"))
  /\ UNCHANGED <<newTurboBalance, fundingTxs>>

\* arweave.ts:162-163 with fundTurboWallet (arweave.ts:95-107):
\* turbo.topUpWithTokens is called with the funding needed
FundingSubmitted ==
  /\ turboBalance < requiredTurboBalance(estimatedCostAR)
  /\ arweaveBalance >= fundingNeeded
  /\ FundingStep("walletRead", "funding", fundResult)
  /\ fundingTxs' = Append(fundingTxs, fundingNeeded)
  /\ UNCHANGED newTurboBalance

\* arweave.ts:165-170 with fundTurboWallet (arweave.ts:118-124): the top-up
\* rejects, fundTurboWallet returns success: false
FundingFails ==
  /\ FundingStep("funding", "returned", NotFunded("fundingFailed"))
  /\ UNCHANGED <<newTurboBalance, fundingTxs>>

\* arweave.ts:172-174 with fundTurboWallet (arweave.ts:109-116): the top-up
\* resolves and the function waits
FundingSucceeds ==
  /\ FundingStep("funding", "waiting", fundResult)
  /\ UNCHANGED <<newTurboBalance, fundingTxs>>

\* arweave.ts:177-189: the Turbo balance is read again; the top-up has been
\* credited by then in full, in part or not at all
BalanceReRead ==
  \E credited \in 0..fundingNeeded :
    /\ newTurboBalance' = turboBalance + credited
    /\ FundingStep("waiting", "returned",
                   IF turboBalance + credited >= estimatedCostAR
                     THEN [funded |-> TRUE, fundingTxId |-> "tx", error |-> "none"]
                     ELSE NotFunded("unverified"))
    /\ UNCHANGED fundingTxs

\* arweave.ts:177, 190-196: the second getTurboBalance rejects
ReReadThrows ==
  /\ FundingStep("waiting", "returned", NotFunded("caught"))
  /\ UNCHANGED <<newTurboBalance, fundingTxs>>

FundingNext ==
  \/ WalletBalanceRead
  \/ WalletBalanceThrows
  \/ TurboBalanceThrows
  \/ TurboSufficient
  \/ WalletInsufficient
  \/ FundingSubmitted
  \/ FundingFails
  \/ FundingSucceeds
  \/ BalanceReRead
  \/ ReReadThrows

SpecFunding == FundingInit /\ [][FundingNext]_vars

\* C37: fundBundlerIfNeeded does not reject; it submits at most one funding
\* transaction, and only when the Turbo balance is below 1.5 times the
\* estimated cost and the main wallet balance is at least the difference; and
\* it returns funded: true only if the Turbo balance was at least 1.5 times the
\* estimated cost, or a funding transaction was submitted and the balance read
\* after it is at least the estimated cost.
C37_FundsOnlyWhenNeeded ==
  /\ fundpc # "rejected"
  /\ Len(fundingTxs) <= 1
  /\ fundingTxs # <<>> =>
       /\ 2 * turboBalance < 3 * estimatedCostAR
       /\ 2 * arweaveBalance >= 3 * estimatedCostAR - 2 * turboBalance
       /\ 2 * fundingTxs[1] = 3 * estimatedCostAR - 2 * turboBalance
  /\ (fundpc = "returned" /\ fundResult.funded) =>
       \/ 2 * turboBalance >= 3 * estimatedCostAR /\ fundingTxs = <<>>
       \/ fundingTxs # <<>> /\ newTurboBalance >= estimatedCostAR

\* A call has returned funded: true after a funding transaction that was
\* credited in part: the balance covers the cost but not 1.5 times the cost
C37_Witness ==
  /\ fundpc = "returned" /\ fundResult.funded
  /\ fundingTxs # <<>>
  /\ newTurboBalance >= estimatedCostAR
  /\ 2 * newTurboBalance < 3 * estimatedCostAR
  /\ turboBalance > 0

=============================================================================
